---- MODULE Spec2Model ----
(***************************************************************************)
(* Model of the apartment scoring engine (apartment_scorer.py) and of the  *)
(* scoring section of the API server (server.py).                          *)
(*                                                                         *)
(* Number representation.  Where the code computes in binary floating     *)
(* point (a true division, a product with its result, the round of it),    *)
(* the model computes with the F64 operators below, which round every      *)
(* intermediate result as IEEE-754 binary64 does.  Sums of integers, and   *)
(* round() of such a sum, are integer arithmetic.                          *)
(*   - money (rent, budget_cap, market_avg_rent): whole dollars;           *)
(*   - bathrooms, ideal_bathrooms: counted in half baths (3 = 1.5 baths);  *)
(*   - distance_miles: hundredths of a mile (the fetchers round to 2       *)
(*     decimals);                                                          *)
(*   - a value that may be None is a sequence: <<>> is None, <<v>> is v;   *)
(*   - a string that the code inspects (a store name) is a sequence of     *)
(*     one-character strings.                                              *)
(***************************************************************************)
EXTENDS Integers, Sequences, FiniteSets, TLC

VARIABLES USER_SETTINGS, call, ret, log, apartment_db, clock, deleting

vars == <<USER_SETTINGS, call, ret, log, apartment_db, clock, deleting>>

----------------------------------------------------------------------------
(* Bounds of the checked input domains.                                    *)

\* rents of the score_price calls are 0 and 1740..(1740 + MaxRent) dollars
MaxRent == 770
\* budget_cap and market_avg_rent of those calls lie 0..MaxCap dollars above
\* 1750 and 2000
MaxCap == 1
\* bedrooms range over 0..MaxBedrooms, bathrooms over 0..2*MaxBedrooms halves
MaxBedrooms == 4
\* drive minutes range over 0..MaxMinutes
MaxMinutes == 61
\* a necessities list has at most MaxNecessities entries
MaxNecessities == 3
\* a nice_to_haves list has at most MaxNiceToHaves entries
MaxNiceToHaves == 8
\* a grocery list over BandStores has at most MaxStores entries
MaxStores == 2
\* a grocery list has at most MaxDistinctStores + 1 differently named stores
MaxDistinctStores == 6
\* a session makes at most MaxLog calls
MaxLog == 3
\* venue and school counts range over 0..MaxVenues
MaxVenues == 45
\* a school_ratings list has at most MaxSchools entries
MaxSchools == 4
\* crime indices range over 0..MaxCrime
MaxCrime == 110
\* the scores given to get_score_color range over 0..MaxScore
MaxScore == 100
\* out-of-domain rents, caps and distances go down to -100 * MaxInvalid
\* dollars and -MaxInvalid hundredths of a mile
MaxInvalid == 20
\* the classifiers are given lists of up to MaxPhrases raw amenity phrases
MaxPhrases == 2
\* a scraped page carries up to MaxPlans floor plans
MaxPlans == 2
\* the millisecond clock advances by at most MaxClock from its initial value
MaxClock == 2
\* a session with the server makes at most MaxRequests scoring requests
MaxRequests == 2

----------------------------------------------------------------------------
(* Python built-ins used by the scorers.                                   *)

Max(a, b) == IF a >= b THEN a ELSE b

Min(a, b) == IF a <= b THEN a ELSE b

Abs(a) == IF a >= 0 THEN a ELSE 0 - a

----------------------------------------------------------------------------
(* Python floats (IEEE-754 binary64).  A non-negative finite float is      *)
(* [m, e]: m is the significand as a sequence of bits, most significant    *)
(* first, without leading or trailing zero bits (<<>> for 0.0), and the    *)
(* value is m * 2^e.  Every operation computes the exact result and        *)
(* rounds it to 53 significant bits, ties to even, as the hardware does.   *)

Zeros(n) == [i \in 1..n |-> 0]

AnyOne(b) == \E i \in DOMAIN b : b[i] = 1

RECURSIVE Pow2(_)
Pow2(k) ==
    IF k = 0 THEN 1
    ELSE IF k % 2 = 0 THEN LET h == Pow2(k \div 2) IN h * h
    ELSE 2 * Pow2(k - 1)

\* the number of bits of an integer 0 <= n < 2^30
BitLength(n) == CHOOSE k \in 0..30 : n < Pow2(k) /\ (k = 0 \/ Pow2(k - 1) <= n)

\* the w low bits of n, most significant first
BitsFixed(n, w) == [i \in 1..w |-> (n \div Pow2(w - i)) % 2]

Bits(n) == BitsFixed(n, BitLength(n))

\* the integer a bit string of at most 30 bits denotes
RECURSIVE BitsVal(_)
BitsVal(b) ==
    IF Len(b) = 0 THEN 0
    ELSE IF Len(b) = 1 THEN b[1]
    ELSE LET h == Len(b) \div 2
         IN  BitsVal(SubSeq(b, 1, h)) * Pow2(Len(b) - h)
                + BitsVal(SubSeq(b, h + 1, Len(b)))

StripLeading(b) ==
    IF AnyOne(b)
    THEN SubSeq(b, CHOOSE i \in DOMAIN b : b[i] = 1 /\ \A j \in 1..(i - 1) : b[j] = 0,
                Len(b))
    ELSE <<>>

\* the float with significand bits b (leading and trailing zeros allowed) and
\* exponent e for the last bit of b
F64Norm(b, e) ==
    IF AnyOne(b)
    THEN LET last == CHOOSE i \in DOMAIN b :
                        b[i] = 1 /\ \A j \in (i + 1)..Len(b) : b[j] = 0
         IN  [m |-> StripLeading(SubSeq(b, 1, last)), e |-> e + Len(b) - last]
    ELSE [m |-> <<>>, e |-> 0]

\* b + 1 on a bit string
IncBits(b) ==
    IF \E i \in DOMAIN b : b[i] = 0
    THEN LET p == CHOOSE i \in DOMAIN b :
                     b[i] = 0 /\ \A j \in (i + 1)..Len(b) : b[j] = 1
         IN  SubSeq(b, 1, p - 1) \o <<1>> \o Zeros(Len(b) - p)
    ELSE <<1>> \o Zeros(Len(b))

F64Precision == 53

\* the arithmetic on bit strings works on chunks of ChunkBits bits
ChunkBits == 15

\* the float nearest to (b + d) * 2^e, where d is in [0, 1) and d # 0 iff sticky
F64Round(bits, e, sticky) ==
    LET b == StripLeading(bits)
        n == Len(b)
    IN  IF n <= F64Precision THEN F64Norm(b, e)
        ELSE
        LET keep == SubSeq(b, 1, F64Precision)
            guard == b[F64Precision + 1]
            st == sticky \/ AnyOne(SubSeq(b, F64Precision + 2, n))
            up == guard = 1 /\ (st \/ keep[F64Precision] = 1)
        IN  F64Norm(IF up THEN IncBits(keep) ELSE keep, e + n - F64Precision)

F64FromInt(n) == F64Norm(Bits(n), 0)

\* long division of a bit string by an integer 0 < d < 2^15, a chunk at a time
RECURSIVE LongDiv(_, _, _)
LongDiv(b, d, r) ==
    IF b = <<>> THEN [q |-> <<>>, r |-> r]
    ELSE LET w == Min(ChunkBits, Len(b))
             t == r * Pow2(w) + BitsVal(SubSeq(b, 1, w))
             rest == LongDiv(SubSeq(b, w + 1, Len(b)), d, t % d)
         IN  [q |-> BitsFixed(t \div d, w) \o rest.q, r |-> rest.r]

\* x / d for a float x and an integer 0 < d < 2^15
F64DivInt(x, d) ==
    LET extra == F64Precision + 2 + BitLength(d)
        res == LongDiv(x.m \o Zeros(extra), d, 0)
    IN  F64Round(res.q, x.e - extra, res.r # 0)

\* b * k + c on a bit string, for integers 0 <= k, c < 2^15
RECURSIVE MulBits(_, _, _)
MulBits(b, k, c) ==
    IF b = <<>> THEN Bits(c)
    ELSE LET w == Min(ChunkBits, Len(b))
             t == BitsVal(SubSeq(b, Len(b) - w + 1, Len(b))) * k + c
         IN  MulBits(SubSeq(b, 1, Len(b) - w), k, t \div Pow2(w))
                \o BitsFixed(t % Pow2(w), w)

\* x * k for a float x and an integer 0 <= k < 2^15
F64MulInt(x, k) == F64Round(MulBits(x.m, k, 0), x.e, FALSE)

\* the last w bits of b as an integer, b padded with leading zeros
LowChunk(b, w) == BitsVal(SubSeq(b, Max(1, Len(b) - w + 1), Len(b)))

DropChunk(b, w) == SubSeq(b, 1, Len(b) - w)

\* a + b + c on bit strings
RECURSIVE AddBits(_, _, _)
AddBits(a, b, c) ==
    IF a = <<>> /\ b = <<>> THEN Bits(c)
    ELSE LET t == LowChunk(a, ChunkBits) + LowChunk(b, ChunkBits) + c
         IN  AddBits(DropChunk(a, ChunkBits), DropChunk(b, ChunkBits),
                     t \div Pow2(ChunkBits))
                \o BitsFixed(t % Pow2(ChunkBits), ChunkBits)

\* a - b - c on bit strings, for a >= b + c
RECURSIVE SubBits(_, _, _)
SubBits(a, b, c) ==
    IF a = <<>> /\ b = <<>> THEN <<>>
    ELSE LET t == LowChunk(a, ChunkBits) - LowChunk(b, ChunkBits) - c
         IN  SubBits(DropChunk(a, ChunkBits), DropChunk(b, ChunkBits),
                     IF t < 0 THEN 1 ELSE 0)
                \o BitsFixed(IF t < 0 THEN t + Pow2(ChunkBits) ELSE t, ChunkBits)

F64Add(x, y) ==
    LET e0 == Min(x.e, y.e)
    IN  F64Round(AddBits(x.m \o Zeros(x.e - e0), y.m \o Zeros(y.e - e0), 0), e0, FALSE)

\* x - y for x >= y
F64Sub(x, y) ==
    LET e0 == Min(x.e, y.e)
    IN  F64Round(SubBits(x.m \o Zeros(x.e - e0), y.m \o Zeros(y.e - e0), 0), e0, FALSE)

\* math.floor(x), for x < 2^30
F64Floor(x) ==
    IF x.e >= 0 THEN BitsVal(x.m) * Pow2(x.e)
    ELSE LET n == Len(x.m) + x.e
         IN  IF n <= 0 THEN 0 ELSE BitsVal(SubSeq(x.m, 1, n))

\* x <= n and x >= n for a float x and an integer n >= 0
F64LeInt(x, n) == F64Floor(x) < n \/ (F64Floor(x) = n /\ x.e >= 0)

F64GeInt(x, n) == F64Floor(x) >= n

\* round(x): the nearest integer, a tie goes to the even one
PyRound(x) ==
    IF x.e >= 0 THEN F64Floor(x)
    ELSE LET n == Len(x.m) + x.e
             ip == F64Floor(x)
         IN  IF n < 0 THEN 0
             ELSE LET guard == x.m[n + 1]
                      sticky == AnyOne(SubSeq(x.m, n + 2, Len(x.m)))
                  IN  IF guard = 1 /\ (sticky \/ ip % 2 = 1) THEN ip + 1 ELSE ip

\* max(0, c - x) for an integer c >= 0 and a float x >= 0
F64Max0IntMinus(c, x) ==
    IF F64GeInt(x, c) THEN F64FromInt(0) ELSE F64Sub(F64FromInt(c), x)

\* round((a / b) * k) for integers a >= 0, b > 0, k >= 0
RoundRatioTimes(a, b, k) == PyRound(F64MulInt(F64DivInt(F64FromInt(a), b), k))

None == <<>>

Some(v) == <<v>>

\* the outcome of a call that ended with the exception e
Raise(e) == <<"raise", e>>

\* d.get(key, default) on a dict modelled as a function
Get(d, key, default) == IF key \in DOMAIN d THEN d[key] ELSE default

----------------------------------------------------------------------------
(* Settings.                                                               *)

AmenityKeys ==
    {"covered_parking", "dishwasher", "in_unit_laundry", "ac",
     "pool", "sauna_hot_tub", "gym", "package_lockers"}

DefaultSettings ==
    [budget_cap |-> 2500,
     ideal_bedrooms |-> 2,
     ideal_bathrooms |-> 4,
     ideal_sqft |-> 1000,
     necessities |-> <<"covered_parking", "dishwasher", "in_unit_laundry", "ac">>,
     nice_to_haves |-> <<"pool", "sauna_hot_tub", "gym", "package_lockers">>,
     market_avg_rent |-> 1750]

----------------------------------------------------------------------------
(* apartment_scorer.py: the category scorers.                              *)

\* 50 if rent <= limit else max(0, 50 - (over / 100) * 10), as a float
PriceSubScore(rent, limit) ==
    IF rent <= limit THEN F64FromInt(50)
    ELSE LET over == rent - limit
         IN  F64Max0IntMinus(50, F64MulInt(F64DivInt(F64FromInt(over), 100), 10))

\* both halves measured against the budget cap
ScorePriceAgainstCapOnly(rent, settings) ==
    LET budget_score == PriceSubScore(rent, settings.budget_cap)
    IN  PyRound(F64Add(budget_score, budget_score))

score_price(rent, settings) ==
    LET budget_cap == settings.budget_cap
        market_avg == settings.market_avg_rent
        budget_score == PriceSubScore(rent, budget_cap)
        market_score == PriceSubScore(rent, market_avg)
    IN  PyRound(F64Add(budget_score, market_score))

\* the literal 0.8
PointEight == F64DivInt(F64FromInt(8), 10)

ScoreRoomsSqftLinear(bedrooms, bathrooms, sqft, settings) ==
    LET bed_score == Max(0, 40 - Abs(bedrooms - settings.ideal_bedrooms) * 20)
        bath_score == Max(0, 40 - Abs(bathrooms - settings.ideal_bathrooms) * 10)
        sqft_score == IF sqft >= settings.ideal_sqft THEN 20
                      ELSE IF sqft > 0 /\ 5 * sqft > 4 * settings.ideal_sqft THEN 10
                      ELSE 0
    IN  bed_score + bath_score + sqft_score

\* bathrooms and ideal_bathrooms are in half baths: bath_diff * 20 is 10 per half
score_rooms(bedrooms, bathrooms, sqft, settings) ==
    LET ideal_bed == settings.ideal_bedrooms
        ideal_bath == settings.ideal_bathrooms
        ideal_sqft == settings.ideal_sqft
        bed_diff == Abs(bedrooms - ideal_bed)
        bed_score == Max(0, 40 - bed_diff * 20)
        bath_diff2 == Abs(bathrooms - ideal_bath)
        bath_score == Max(0, 40 - bath_diff2 * 10)
        sqft_score == IF sqft >= ideal_sqft THEN 20
                      ELSE IF F64LeInt(F64MulInt(PointEight, ideal_sqft), sqft) THEN 10
                      ELSE 0
    IN  bed_score + bath_score + sqft_score

ScoreNecessitiesAny(amenities, settings) ==
    IF \E i \in DOMAIN settings.necessities : settings.necessities[i] \in amenities
        \/ settings.necessities = <<>>
    THEN 100 ELSE 0

\* amenities is only tested for membership: it is modelled as a set
score_necessities(amenities, settings) ==
    IF \E i \in DOMAIN settings.necessities : settings.necessities[i] \notin amenities
    THEN 0
    ELSE 100

ScoreNiceToHavesFloor(amenities, settings) ==
    LET nice_list == settings.nice_to_haves
        total == Len(nice_list)
        count == Cardinality({i \in DOMAIN nice_list : nice_list[i] \in amenities})
    IN  IF total = 0 THEN 100 ELSE (count * 100) \div total

score_nice_to_haves(amenities, settings) ==
    LET nice_list == settings.nice_to_haves
        total == Len(nice_list)
        count == Cardinality({i \in DOMAIN nice_list : nice_list[i] \in amenities})
    IN  IF total = 0 THEN 100 ELSE RoundRatioTimes(count, total, 100)

TransitMap == [nearby |-> 30, some |-> 15, none |-> 0]

ScoreCommuteStrict(drive_minutes, transit_available) ==
    LET drive_score == IF drive_minutes < 10 THEN 70
                       ELSE IF drive_minutes < 20 THEN 55
                       ELSE IF drive_minutes < 30 THEN 40
                       ELSE IF drive_minutes < 45 THEN 25
                       ELSE 10
    IN  drive_score + Get(TransitMap, transit_available, 0)

score_commute(drive_minutes, transit_available) ==
    LET drive_score == IF drive_minutes <= 10 THEN 70
                       ELSE IF drive_minutes <= 20 THEN 55
                       ELSE IF drive_minutes <= 30 THEN 40
                       ELSE IF drive_minutes <= 45 THEN 25
                       ELSE 10
        transit_score == Get(TransitMap, transit_available, 0)
    IN  drive_score + transit_score

\* str.lower() on the ASCII letters
UpperToLower ==
    [A |-> "a", B |-> "b", C |-> "c", D |-> "d", E |-> "e", F |-> "f", G |-> "g",
     H |-> "h", I |-> "i", J |-> "j", K |-> "k", L |-> "l", M |-> "m", N |-> "n",
     O |-> "o", P |-> "p", Q |-> "q", R |-> "r", S |-> "s", T |-> "t", U |-> "u",
     V |-> "v", W |-> "w", X |-> "x", Y |-> "y", Z |-> "z"]

Lower(s) == [i \in DOMAIN s |-> Get(UpperToLower, s[i], s[i])]

\* sub in s
Contains(sub, s) ==
    \E i \in 0..(Len(s) - Len(sub)) : SubSeq(s, i + 1, i + Len(sub)) = sub

\* min(...) over a non-empty set of numbers
SetMin(S) == CHOOSE x \in S : \A y \in S : x <= y

StrCostco == <<"c", "o", "s", "t", "c", "o">>

IsCostco(g) == Contains(StrCostco, Lower(g.name))

IsNearby(g) == g.distance_miles <= 300

ScoreGroceryNoLower(grocery_data) ==
    IF grocery_data = <<>> THEN 0
    ELSE
    LET nearby == SelectSeq(grocery_data, IsNearby)
        unique_types == Cardinality({nearby[i].name : i \in DOMAIN nearby})
        variety_score == Min(40, RoundRatioTimes(unique_types, 5, 40))
        closest == SetMin({grocery_data[i].distance_miles : i \in DOMAIN grocery_data})
        proximity_score == IF closest <= 50 THEN 30
                           ELSE IF closest <= 100 THEN 25
                           ELSE IF closest <= 200 THEN 15
                           ELSE IF closest <= 300 THEN 10
                           ELSE 0
        costco == SelectSeq(grocery_data, IsCostco)
        costco_dist == SetMin({costco[i].distance_miles : i \in DOMAIN costco})
        costco_score == IF costco # <<>>
                        THEN IF costco_dist <= 300 THEN 30
                             ELSE IF costco_dist <= 500 THEN 20
                             ELSE IF costco_dist <= 1000 THEN 10
                             ELSE 0
                        ELSE 0
    IN  variety_score + proximity_score + costco_score

\* distance_miles is in hundredths of a mile
score_grocery(grocery_data) ==
    IF grocery_data = <<>> THEN 0
    ELSE
    LET nearby == SelectSeq(grocery_data, IsNearby)
        unique_types == Cardinality({Lower(nearby[i].name) : i \in DOMAIN nearby})
        variety_score == Min(40, RoundRatioTimes(unique_types, 5, 40))
        closest == SetMin({grocery_data[i].distance_miles : i \in DOMAIN grocery_data})
        proximity_score == IF closest <= 50 THEN 30
                           ELSE IF closest <= 100 THEN 25
                           ELSE IF closest <= 200 THEN 15
                           ELSE IF closest <= 300 THEN 10
                           ELSE 0
        costco == SelectSeq(grocery_data, IsCostco)
        costco_dist == SetMin({costco[i].distance_miles : i \in DOMAIN costco})
        costco_score == IF costco # <<>>
                        THEN IF costco_dist <= 300 THEN 30
                             ELSE IF costco_dist <= 500 THEN 20
                             ELSE IF costco_dist <= 1000 THEN 10
                             ELSE 0
                        ELSE 0
    IN  variety_score + proximity_score + costco_score

RECURSIVE SeqSum(_)
SeqSum(q) == IF q = <<>> THEN 0 ELSE Head(q) + SeqSum(Tail(q))

ScoreSchoolsTruncated(school_ratings) ==
    IF school_ratings = <<>> THEN 50
    ELSE (SeqSum(school_ratings) * 10) \div Len(school_ratings)

score_schools(school_ratings) ==
    IF school_ratings = <<>> THEN 50
    ELSE RoundRatioTimes(SeqSum(school_ratings), Len(school_ratings), 10)

ScoreCrimeNotFloored(crime_index) ==
    IF crime_index = None THEN 50
    ELSE 100 - crime_index[1]

\* crime_index is None or <<index>>
score_crime(crime_index) ==
    IF crime_index = None THEN 50
    ELSE Max(0, 100 - crime_index[1])

\* x / 4.5 for a float x: 4.5 is 9 / 2, and doubling is exact
F64DivBy4p5(x) == F64DivInt(F64MulInt(x, 2), 9)

\* min(50, round((avg_rating / 4.5) * 50)) for a rating given in tenths
QualityScore(rating10) ==
    Min(50, PyRound(F64MulInt(F64DivBy4p5(F64DivInt(F64FromInt(rating10), 10)), 50)))

ScoreRestaurantsUncapped(restaurant_count, avg_rating) ==
    LET density == RoundRatioTimes(restaurant_count, 20, 50)
        quality == IF avg_rating = None THEN 25 ELSE QualityScore(avg_rating[1])
    IN  density + quality

ScoreRestaurantsSumCapped(restaurant_count, avg_rating) ==
    LET density == RoundRatioTimes(restaurant_count, 20, 50)
        quality == IF avg_rating = None THEN 25 ELSE QualityScore(avg_rating[1])
    IN  Min(100, density + quality)

\* avg_rating is None or <<rating in tenths>>
score_restaurants(restaurant_count, avg_rating) ==
    LET density == Min(50, RoundRatioTimes(restaurant_count, 20, 50))
        quality == IF avg_rating = None THEN 25 ELSE QualityScore(avg_rating[1])
    IN  density + quality

\* nightlife scored with the density denominator of the restaurants
ScoreNightlifeOverTwenty(venue_count, avg_rating) ==
    LET density == Min(50, RoundRatioTimes(venue_count, 20, 50))
        quality == IF avg_rating = None THEN 25 ELSE QualityScore(avg_rating[1])
    IN  density + quality

score_nightlife(venue_count, avg_rating) ==
    LET density == Min(50, RoundRatioTimes(venue_count, 10, 50))
        quality == IF avg_rating = None THEN 25 ELSE QualityScore(avg_rating[1])
    IN  density + quality

----------------------------------------------------------------------------
(* apartment_scorer.py: the master scoring function.                       *)

\* sum(d.values()) for a dict d restricted to the keys S
RECURSIVE SumOver(_, _)
SumOver(d, S) ==
    IF S = {} THEN 0
    ELSE LET k == CHOOSE x \in S : TRUE
         IN  d[k] + SumOver(d, S \ {k})

\* round(sum(d.values()) / len(d))
\* the mean rounded half up
RoundedMeanHalfUp(d) ==
    (2 * SumOver(d, DOMAIN d) + Cardinality(DOMAIN d)) \div (2 * Cardinality(DOMAIN d))

RoundedMean(d) ==
    PyRound(F64DivInt(F64FromInt(SumOver(d, DOMAIN d)), Cardinality(DOMAIN d)))

CategoryScoresOfPresentFields(apartment, neighborhood_data, settings) ==
    [k \in {"price", "rooms", "necessities", "nice_to_haves"}
            \cup {c \in {"schools"} : "school_ratings" \in DOMAIN neighborhood_data}
            \cup {"crime", "restaurants", "commute", "nightlife", "grocery"} |->
        CASE k = "price" -> score_price(apartment.rent, settings)
          [] k = "rooms" -> score_rooms(apartment.bedrooms, apartment.bathrooms,
                                        apartment.sqft, settings)
          [] k = "necessities" -> score_necessities(apartment.amenities, settings)
          [] k = "nice_to_haves" -> score_nice_to_haves(apartment.amenities, settings)
          [] k = "schools" -> score_schools(neighborhood_data.school_ratings)
          [] k = "crime" -> score_crime(Get(neighborhood_data, "crime_index", None))
          [] k = "restaurants" ->
                score_restaurants(Get(neighborhood_data, "restaurant_count", 0),
                                  Get(neighborhood_data, "restaurant_avg_rating", None))
          [] k = "commute" ->
                score_commute(Get(neighborhood_data, "drive_minutes", 60),
                              Get(neighborhood_data, "transit_available", "none"))
          [] k = "nightlife" ->
                score_nightlife(Get(neighborhood_data, "nightlife_count", 0),
                                Get(neighborhood_data, "nightlife_avg_rating", None))
          [] OTHER -> score_grocery(Get(neighborhood_data, "grocery_stores", <<>>))]

\* an absent school list, crime index or average rating read as the worst
\* value instead of the neutral default
CategoryScoresAbsentAsWorst(apartment, neighborhood_data, settings) ==
    [price |-> score_price(apartment.rent, settings),
     rooms |-> score_rooms(apartment.bedrooms, apartment.bathrooms,
                           apartment.sqft, settings),
     necessities |-> score_necessities(apartment.amenities, settings),
     nice_to_haves |-> score_nice_to_haves(apartment.amenities, settings),
     schools |-> score_schools(Get(neighborhood_data, "school_ratings", <<1>>)),
     crime |-> score_crime(Get(neighborhood_data, "crime_index", Some(100))),
     restaurants |-> score_restaurants(
                        Get(neighborhood_data, "restaurant_count", 0),
                        Get(neighborhood_data, "restaurant_avg_rating", Some(0))),
     commute |-> score_commute(Get(neighborhood_data, "drive_minutes", 60),
                               Get(neighborhood_data, "transit_available", "none")),
     nightlife |-> score_nightlife(
                        Get(neighborhood_data, "nightlife_count", 0),
                        Get(neighborhood_data, "nightlife_avg_rating", Some(0))),
     grocery |-> score_grocery(Get(neighborhood_data, "grocery_stores", <<>>))]

\* the ten category scores, in the order score_apartment assigns them
CategoryScores(apartment, neighborhood_data, settings) ==
    [price |-> score_price(apartment.rent, settings),
     rooms |-> score_rooms(apartment.bedrooms, apartment.bathrooms,
                           apartment.sqft, settings),
     necessities |-> score_necessities(apartment.amenities, settings),
     nice_to_haves |-> score_nice_to_haves(apartment.amenities, settings),
     schools |-> score_schools(Get(neighborhood_data, "school_ratings", <<>>)),
     crime |-> score_crime(Get(neighborhood_data, "crime_index", None)),
     restaurants |-> score_restaurants(
                        Get(neighborhood_data, "restaurant_count", 0),
                        Get(neighborhood_data, "restaurant_avg_rating", None)),
     commute |-> score_commute(Get(neighborhood_data, "drive_minutes", 60),
                               Get(neighborhood_data, "transit_available", "none")),
     nightlife |-> score_nightlife(
                        Get(neighborhood_data, "nightlife_count", 0),
                        Get(neighborhood_data, "nightlife_avg_rating", None)),
     grocery |-> score_grocery(Get(neighborhood_data, "grocery_stores", <<>>))]

\* the scores dict kept between calls: the overall of the call before is
\* still in it when the values are summed
ScoreApartmentSharedScores(apartment, neighborhood_data, settings) ==
    LET scores == CategoryScores(apartment, neighborhood_data, settings)
        earlier == {i \in DOMAIN log : log[i].call.op = "score_apartment"}
        kept == IF earlier = {} THEN scores
                ELSE ("overall" :> log[CHOOSE i \in earlier :
                                         \A j \in earlier : j <= i].result.overall)
                        @@ scores
    IN  ("overall" :> RoundedMean(kept)) @@ scores

ScoreApartmentOverallCounted(apartment, neighborhood_data, settings) ==
    LET scores == CategoryScores(apartment, neighborhood_data, settings)
        counted == ("overall" :> 0) @@ scores
    IN  ("overall" :> RoundedMean(counted)) @@ scores

score_apartment(apartment, neighborhood_data, settings) ==
    LET scores == CategoryScores(apartment, neighborhood_data, settings)
    IN  ("overall" :> RoundedMean(scores)) @@ scores

----------------------------------------------------------------------------
(* apartment_scorer.py: the color coding helper.                           *)

GetScoreColorStrict(score) ==
    IF score > 75 THEN "green"
    ELSE IF score > 50 THEN "yellow"
    ELSE "red"

get_score_color(score) ==
    IF score >= 75 THEN "green"
    ELSE IF score >= 50 THEN "yellow"
    ELSE "red"

----------------------------------------------------------------------------
(* server.py: the scoring section.  The scorers read the module's          *)
(* USER_SETTINGS.                                                          *)

server_score_price(rent) ==
    LET cap == USER_SETTINGS.budget_cap
        avg == USER_SETTINGS.market_avg_rent
        budget == IF rent <= cap THEN F64FromInt(50)
                  ELSE F64Max0IntMinus(50,
                          F64MulInt(F64DivInt(F64FromInt(rent - cap), 100), 10))
        market == IF rent <= avg THEN F64FromInt(50)
                  ELSE F64Max0IntMinus(50,
                          F64MulInt(F64DivInt(F64FromInt(rent - avg), 100), 10))
    IN  PyRound(F64Add(budget, market))

server_score_rooms(beds, baths, sqft) ==
    LET bed_score == Max(0, 40 - Abs(beds - USER_SETTINGS.ideal_bedrooms) * 20)
        bath_score == Max(0, 40 - Abs(baths - USER_SETTINGS.ideal_bathrooms) * 10)
        sqft_score == IF sqft >= USER_SETTINGS.ideal_sqft THEN 20
                      ELSE IF F64LeInt(F64MulInt(PointEight, USER_SETTINGS.ideal_sqft),
                                       sqft)
                           THEN 10
                           ELSE 0
    IN  bed_score + bath_score + sqft_score

server_score_necessities(amenities) ==
    IF \E i \in DOMAIN USER_SETTINGS.necessities :
            USER_SETTINGS.necessities[i] \notin amenities
    THEN 0
    ELSE 100

server_score_nice_to_haves(amenities) ==
    LET total == Len(USER_SETTINGS.nice_to_haves)
        count == Cardinality({i \in DOMAIN USER_SETTINGS.nice_to_haves :
                                 USER_SETTINGS.nice_to_haves[i] \in amenities})
    IN  IF total = 0 THEN 100 ELSE RoundRatioTimes(count, total, 100)

server_score_restaurants(count) == Min(100, RoundRatioTimes(count, 20, 50) + 35)

\* a copy that has drifted: some transit worth 10
ServerScoreCommuteDrifted(mins, transit) ==
    LET d == IF mins <= 10 THEN 70
             ELSE IF mins <= 20 THEN 55
             ELSE IF mins <= 30 THEN 40
             ELSE IF mins <= 45 THEN 25
             ELSE 10
    IN  d + Get([nearby |-> 30, some |-> 10, none |-> 0], transit, 0)

server_score_commute(mins, transit) ==
    LET d == IF mins <= 10 THEN 70
             ELSE IF mins <= 20 THEN 55
             ELSE IF mins <= 30 THEN 40
             ELSE IF mins <= 45 THEN 25
             ELSE 10
    IN  d + Get([nearby |-> 30, some |-> 15, none |-> 0], transit, 0)

server_score_nightlife(count) == Min(100, RoundRatioTimes(count, 10, 50) + 35)

server_score_grocery(stores) ==
    IF stores = <<>> THEN 0
    ELSE
    LET nearby == SelectSeq(stores, IsNearby)
        variety == Min(40, RoundRatioTimes(
                              Cardinality({Lower(nearby[i].name) : i \in DOMAIN nearby}),
                              5, 40))
        closest == SetMin({stores[i].distance_miles : i \in DOMAIN stores})
        prox == IF closest <= 50 THEN 30
                ELSE IF closest <= 100 THEN 25
                ELSE IF closest <= 200 THEN 15
                ELSE IF closest <= 300 THEN 10
                ELSE 0
        costco_list == SelectSeq(stores, IsCostco)
        cd == SetMin({costco_list[i].distance_miles : i \in DOMAIN costco_list})
        costco == IF costco_list # <<>>
                  THEN IF cd <= 300 THEN 30
                       ELSE IF cd <= 500 THEN 20
                       ELSE IF cd <= 1000 THEN 10
                       ELSE 0
                  ELSE 0
    IN  variety + prox + costco

server_score_schools(count) == Min(100, RoundRatioTimes(count, 5, 70) + 20)

ServerCategoryScores(apt, nbr) ==
    [price |-> server_score_price(Get(apt, "rent", 0)),
     rooms |-> server_score_rooms(Get(apt, "bedrooms", 2), Get(apt, "bathrooms", 4),
                                  Get(apt, "sqft", 0)),
     necessities |-> server_score_necessities(Get(apt, "amenities", {})),
     nice_to_haves |-> server_score_nice_to_haves(Get(apt, "amenities", {})),
     schools |-> server_score_schools(Get(nbr, "school_count", 0)),
     crime |-> 65,
     restaurants |-> server_score_restaurants(Get(nbr, "restaurant_count", 0)),
     commute |-> server_score_commute(Get(nbr, "commute_minutes", 60),
                                      Get(nbr, "transit_level", "none")),
     nightlife |-> server_score_nightlife(Get(nbr, "nightlife_count", 0)),
     grocery |-> server_score_grocery(Get(nbr, "grocery_stores", <<>>))]

\* the constant crime value left out of the mean
CalculateAllScoresWithoutCrime(apt, nbr) ==
    LET s == ServerCategoryScores(apt, nbr)
    IN  ("overall" :> RoundedMean([k \in DOMAIN s \ {"crime"} |-> s[k]])) @@ s

calculate_all_scores(apt, nbr) ==
    LET s == ServerCategoryScores(apt, nbr)
    IN  ("overall" :> RoundedMean(s)) @@ s

----------------------------------------------------------------------------
(* server.py and apartment_scraper.py: the amenity classifiers.  A raw     *)
(* amenity phrase and the page text are strings; the classified list is    *)
(* list(set(classified)), a list without duplicates in the iteration order *)
(* of the set, which the code does not fix.                                *)

AMENITY_KEYWORDS ==
    [covered_parking |->
        {<<"u", "n", "d", "e", "r", "g", "r", "o", "u", "n", "d", " ", "p", "a", "r", "k", "i", "n", "g">>,
         <<"c", "o", "v", "e", "r", "e", "d", " ", "p", "a", "r", "k", "i", "n", "g">>,
         <<"g", "a", "r", "a", "g", "e", " ", "p", "a", "r", "k", "i", "n", "g">>,
         <<"i", "n", "d", "o", "o", "r", " ", "p", "a", "r", "k", "i", "n", "g">>,
         <<"h", "e", "a", "t", "e", "d", " ", "p", "a", "r", "k", "i", "n", "g">>,
         <<"p", "a", "r", "k", "i", "n", "g", " ", "g", "a", "r", "a", "g", "e">>,
         <<"h", "e", "a", "t", "e", "d", " ", "u", "n", "d", "e", "r", "g", "r", "o", "u", "n", "d">>,
         <<"p", "a", "r", "k", "i", "n", "g", " ", "s", "t", "r", "u", "c", "t", "u", "r", "e">>},
     dishwasher |->
        {<<"d", "i", "s", "h", "w", "a", "s", "h", "e", "r">>},
     in_unit_laundry |->
        {<<"i", "n", "-", "u", "n", "i", "t", " ", "l", "a", "u", "n", "d", "r", "y">>,
         <<"i", "n", " ", "u", "n", "i", "t", " ", "l", "a", "u", "n", "d", "r", "y">>,
         <<"w", "a", "s", "h", "e", "r", "/", "d", "r", "y", "e", "r">>,
         <<"w", "a", "s", "h", "e", "r", " ", "a", "n", "d", " ", "d", "r", "y", "e", "r">>,
         <<"i", "n", "-", "h", "o", "m", "e", " ", "l", "a", "u", "n", "d", "r", "y">>,
         <<"w", "/", "d", " ", "i", "n", " ", "u", "n", "i", "t">>,
         <<"w", "a", "s", "h", "e", "r", " ", "&", " ", "d", "r", "y", "e", "r">>,
         <<"i", "n", " ", "u", "n", "i", "t", " ", "w", "a", "s", "h", "e", "r">>,
         <<"f", "u", "l", "l", "-", "s", "i", "z", "e", " ", "w", "a", "s", "h", "e", "r">>,
         <<"i", "n", "-", "u", "n", "i", "t", " ", "w", "a", "s", "h", "e", "r">>,
         <<"w", "a", "s", "h", "e", "r", " ", "d", "r", "y", "e", "r">>,
         <<"i", "n", "-", "h", "o", "m", "e", " ", "w", "a", "s", "h", "e", "r">>},
     ac |->
        {<<"a", "i", "r", " ", "c", "o", "n", "d", "i", "t", "i", "o", "n", "i", "n", "g">>,
         <<"a", "/", "c">>,
         <<"c", "e", "n", "t", "r", "a", "l", " ", "a", "i", "r">>,
         <<"c", "l", "i", "m", "a", "t", "e", " ", "c", "o", "n", "t", "r", "o", "l">>,
         <<"a", "i", "r", "-", "c", "o", "n", "d", "i", "t", "i", "o", "n", "i", "n", "g">>,
         <<"a", "i", "r", " ", "c", "o", "n", "d", "i", "t", "i", "o", "n", "e", "d">>,
         <<"c", "e", "n", "t", "r", "a", "l", " ", "a", "/", "c">>,
         <<"h", "v", "a", "c">>},
     pool |->
        {<<"p", "o", "o", "l">>,
         <<"s", "w", "i", "m", "m", "i", "n", "g">>,
         <<"l", "a", "p", " ", "p", "o", "o", "l">>,
         <<"h", "e", "a", "t", "e", "d", " ", "p", "o", "o", "l">>,
         <<"i", "n", "d", "o", "o", "r", " ", "p", "o", "o", "l">>},
     sauna_hot_tub |->
        {<<"s", "a", "u", "n", "a">>,
         <<"h", "o", "t", " ", "t", "u", "b">>,
         <<"s", "p", "a">>,
         <<"s", "t", "e", "a", "m", " ", "r", "o", "o", "m">>},
     gym |->
        {<<"g", "y", "m">>,
         <<"f", "i", "t", "n", "e", "s", "s", " ", "c", "e", "n", "t", "e", "r">>,
         <<"f", "i", "t", "n", "e", "s", "s", " ", "r", "o", "o", "m">>,
         <<"e", "x", "e", "r", "c", "i", "s", "e", " ", "r", "o", "o", "m">>,
         <<"w", "o", "r", "k", "o", "u", "t">>,
         <<"f", "i", "t", "n", "e", "s", "s">>,
         <<"t", "e", "c", "h", "n", "o", "g", "y", "m">>,
         <<"2", "4", " ", "h", "o", "u", "r", " ", "g", "y", "m">>,
         <<"w", "e", "i", "g", "h", "t", " ", "r", "o", "o", "m">>},
     package_lockers |->
        {<<"p", "a", "c", "k", "a", "g", "e", " ", "l", "o", "c", "k", "e", "r">>,
         <<"p", "a", "r", "c", "e", "l", " ", "l", "o", "c", "k", "e", "r">>,
         <<"p", "a", "c", "k", "a", "g", "e", " ", "r", "o", "o", "m">>,
         <<"m", "a", "i", "l", "r", "o", "o", "m">>,
         <<"p", "a", "c", "k", "a", "g", "e", " ", "c", "o", "n", "c", "i", "e", "r", "g", "e">>,
         <<"p", "a", "c", "k", "a", "g", "e", " ", "r", "e", "c", "e", "i", "v", "i", "n", "g">>,
         <<"a", "m", "a", "z", "o", "n", " ", "l", "o", "c", "k", "e", "r">>}]

\* " ".join(raw_amenities)
RECURSIVE JoinSpace(_)
JoinSpace(raw_amenities) ==
    IF raw_amenities = <<>> THEN <<>>
    ELSE IF Len(raw_amenities) = 1 THEN raw_amenities[1]
    ELSE raw_amenities[1] \o <<" ">> \o JoinSpace(Tail(raw_amenities))

\* set(classified) of classify_amenities_adc
classify_amenities_adc(raw_amenities, page_text) ==
    LET combined == Lower(JoinSpace(raw_amenities)) \o <<" ">> \o Lower(page_text)
    IN  {key \in DOMAIN AMENITY_KEYWORDS :
            \E kw \in AMENITY_KEYWORDS[key] : Contains(kw, combined)}

keyword_map ==
    [covered_parking |->
        {<<"c", "o", "v", "e", "r", "e", "d", " ", "p", "a", "r", "k", "i", "n", "g">>,
         <<"g", "a", "r", "a", "g", "e">>,
         <<"i", "n", "d", "o", "o", "r", " ", "p", "a", "r", "k", "i", "n", "g">>,
         <<"h", "e", "a", "t", "e", "d", " ", "p", "a", "r", "k", "i", "n", "g">>},
     dishwasher |->
        {<<"d", "i", "s", "h", "w", "a", "s", "h", "e", "r">>},
     in_unit_laundry |->
        {<<"i", "n", "-", "u", "n", "i", "t", " ", "l", "a", "u", "n", "d", "r", "y">>,
         <<"i", "n", " ", "u", "n", "i", "t", " ", "l", "a", "u", "n", "d", "r", "y">>,
         <<"w", "a", "s", "h", "e", "r", "/", "d", "r", "y", "e", "r">>,
         <<"w", "a", "s", "h", "e", "r", " ", "a", "n", "d", " ", "d", "r", "y", "e", "r">>,
         <<"i", "n", "-", "h", "o", "m", "e", " ", "l", "a", "u", "n", "d", "r", "y">>,
         <<"w", "/", "d", " ", "i", "n", " ", "u", "n", "i", "t">>},
     ac |->
        {<<"a", "i", "r", " ", "c", "o", "n", "d", "i", "t", "i", "o", "n", "i", "n", "g">>,
         <<"a", "/", "c">>,
         <<"c", "e", "n", "t", "r", "a", "l", " ", "a", "i", "r">>,
         <<"a", "c">>,
         <<"c", "l", "i", "m", "a", "t", "e", " ", "c", "o", "n", "t", "r", "o", "l">>},
     pool |->
        {<<"p", "o", "o", "l">>,
         <<"s", "w", "i", "m", "m", "i", "n", "g">>},
     sauna_hot_tub |->
        {<<"s", "a", "u", "n", "a">>,
         <<"h", "o", "t", " ", "t", "u", "b">>,
         <<"s", "p", "a">>,
         <<"s", "t", "e", "a", "m", " ", "r", "o", "o", "m">>},
     gym |->
        {<<"g", "y", "m">>,
         <<"f", "i", "t", "n", "e", "s", "s">>,
         <<"e", "x", "e", "r", "c", "i", "s", "e">>,
         <<"w", "o", "r", "k", "o", "u", "t">>},
     package_lockers |->
        {<<"p", "a", "c", "k", "a", "g", "e">>,
         <<"p", "a", "r", "c", "e", "l">>,
         <<"l", "o", "c", "k", "e", "r">>,
         <<"m", "a", "i", "l", "r", "o", "o", "m">>}]

\* the phrases joined and matched as one text
ClassifyAmenitiesJoined(raw_amenities) ==
    {amenity_key \in DOMAIN keyword_map :
        \E kw \in keyword_map[amenity_key] :
            Contains(kw, Lower(JoinSpace(raw_amenities)))}

\* set(classified) of classify_amenities
classify_amenities(raw_amenities) ==
    {amenity_key \in DOMAIN keyword_map :
        \E i \in DOMAIN raw_amenities :
            \E kw \in keyword_map[amenity_key] :
                Contains(kw, Lower(raw_amenities[i]))}

\* list(set(classified)): the lists holding each element of S once
ListsOf(S) == {q \in [1..Cardinality(S) -> S] : \A x \in S : \E i \in DOMAIN q : q[i] = x}

----------------------------------------------------------------------------
(* server.py: the request handlers.  A floor plan carries bedrooms,        *)
(* bathrooms, sqft and rent, each None or a value, and the rents of its     *)
(* units.  A stored record keeps the id, the scored fields and the scores;  *)
(* the display fields (name, address, url, tour) play no part.             *)

Digits == <<"1", "2", "3", "4", "5", "6", "7", "8", "9">>

\* str(n) of a natural number
RECURSIVE str(_)
str(n) ==
    IF n < 10 THEN <<IF n = 0 THEN "0" ELSE Digits[n]>>
    ELSE str(n \div 10) \o str(n % 10)

\* the apt dict score_from_url and score_from_source build from a plan
PlanApartment(plan, amenities) ==
    LET rent == IF plan.rent \in {None, Some(0)} /\ plan.units # <<>>
                THEN Some(SetMin({plan.units[u] : u \in DOMAIN plan.units}))
                ELSE plan.rent
    IN  [rent |-> rent, bedrooms |-> plan.bedrooms, bathrooms |-> plan.bathrooms,
         sqft |-> plan.sqft, amenities |-> amenities]

\* the loop over the matching plans (the 2bd/2ba plans, else the 2bd plans,
\* else all of them): the scored apt dicts, or the TypeError of a scorer
\* given None
ScoredPlans(all_plans, amenities, neighborhood) ==
    LET both == SelectSeq(all_plans,
                          LAMBDA p : p.bedrooms = Some(2) /\ p.bathrooms = Some(4))
        beds == SelectSeq(all_plans, LAMBDA p : p.bedrooms = Some(2))
        matching == IF both # <<>> THEN both ELSE IF beds # <<>> THEN beds ELSE all_plans
        apts == [i \in DOMAIN matching |-> PlanApartment(matching[i], amenities)]
    IN  IF \E i \in DOMAIN apts :
              None \in {apts[i].rent, apts[i].bedrooms, apts[i].bathrooms, apts[i].sqft}
        THEN Raise("TypeError")
        ELSE Some([i \in DOMAIN apts |->
                    LET apt == [rent |-> apts[i].rent[1],
                                bedrooms |-> apts[i].bedrooms[1],
                                bathrooms |-> apts[i].bathrooms[1],
                                sqft |-> apts[i].sqft[1],
                                amenities |-> amenities]
                    IN  ("scores" :> calculate_all_scores(apt, neighborhood)) @@ apt])

\* scored plan i stamped with str(ms[i]) + str(i), i counted from 0
Stamped(scored_plans, ms) ==
    [i \in DOMAIN scored_plans |->
        ("id" :> (str(ms[i]) \o str(i - 1))) @@ scored_plans[i]]

----------------------------------------------------------------------------
(* apartment_scraper.py: the entry point.  A scraped floor plan carries     *)
(* beds, baths, sqft and rent, each None or a value.                        *)

\* the 2bd/2ba plans, or all plans when there is none
filter_floor_plans(plans) ==
    LET matching == SelectSeq(plans, LAMBDA plan : plan.beds = Some(2)
                                                    /\ plan.baths = Some(4))
    IN  IF matching # <<>> THEN matching ELSE plans

----------------------------------------------------------------------------
(* Input domains of the checked calls.                                     *)

\* all sequences over S of length at most n
SeqsUpTo(S, n) == UNION {[1..k -> S] : k \in 0..n}

\* a dict restricted to the keys D
Restrict(d, D) == [k \in D |-> d[k]]

Rents == {0} \cup {1740 + r : r \in 0..MaxRent}

\* caps around 2000, market averages below the cap (the default 1750) and
\* at or above it
PriceSettings ==
    {[DefaultSettings EXCEPT !.budget_cap = 2000 + c, !.market_avg_rent = m] :
        c \in 0..MaxCap,
        m \in {1750 + i : i \in 0..MaxCap} \cup {2000 + i : i \in 0..MaxCap}}

PriceCalls ==
    {[op |-> "score_price", rent |-> r, settings |-> s] :
        r \in Rents, s \in PriceSettings \cup {DefaultSettings}}

SqftValues == {0, 799, 800, 801, 999, 1000, 1050}

RoomsSettings ==
    {[DefaultSettings EXCEPT !.ideal_bedrooms = b, !.ideal_bathrooms = h,
                             !.ideal_sqft = q] :
        b \in {1, 2}, h \in {3, 4}, q \in {1000, 1001}}

RoomsCalls ==
    {[op |-> "score_rooms", bedrooms |-> b, bathrooms |-> h, sqft |-> q,
      settings |-> s] :
        b \in 0..MaxBedrooms, h \in 0..(2 * MaxBedrooms), q \in SqftValues,
        s \in RoomsSettings}

NecessityKeys == {"dishwasher", "ac", "pool"}

NiceKeys == {"pool", "gym"}

AmenitySets == SUBSET {"dishwasher", "ac", "pool", "gym"}

NecessitiesCalls ==
    {[op |-> "score_necessities", amenities |-> a,
      settings |-> [DefaultSettings EXCEPT !.necessities = l]] :
        a \in AmenitySets, l \in SeqsUpTo(NecessityKeys, MaxNecessities)}

\* server.py scores against the default necessities
ServerNecessitiesCalls ==
    {[op |-> "server_score_necessities", amenities |-> a] : a \in SUBSET AmenityKeys}

NiceToHavesCalls ==
    {[op |-> "score_nice_to_haves", amenities |-> a,
      settings |-> [DefaultSettings EXCEPT !.nice_to_haves = l]] :
        a \in AmenitySets,
        l \in SeqsUpTo(NiceKeys, MaxNiceToHaves) \cup {DefaultSettings.nice_to_haves}}

TransitValues == {"nearby", "some", "none", "unknown"}

CommuteCalls ==
    {[op |-> o, drive_minutes |-> m, transit_available |-> t] :
        o \in {"score_commute", "server_score_commute"},
        m \in 0..MaxMinutes, t \in TransitValues}

StrAldi == <<"A", "l", "d", "i">>

StrAldiUpper == <<"A", "L", "D", "I">>

StrCostcoName == <<"C", "o", "s", "t", "c", "o">>

StrCostcoGas == <<"C", "O", "S", "T", "C", "O", " ", "G", "a", "s">>

StrCostCo == <<"C", "o", "s", "t", " ", "C", "o">>

StoreNames == {StrAldi, StrAldiUpper, StrCostcoName, StrCostcoGas, StrCostCo}

StoreDistances == {30, 50, 51, 100, 101, 200, 201, 300, 301, 500, 501, 1000, 1001}

Stores == [name : StoreNames, distance_miles : StoreDistances]

\* k stores with k different names, all at distance d
DistinctStores(k, d) ==
    [i \in 1..k |->
        [name |-> <<"S", "t", "o", "r", "e", " ", Digits[i]>>, distance_miles |-> d]]

\* the stores of the longer lists: every name, one distance per band
BandStores == [name : StoreNames, distance_miles : {50, 201, 301, 501}]

GroceryLists ==
    SeqsUpTo(Stores, 1)
        \cup SeqsUpTo(BandStores, MaxStores)
        \cup {DistinctStores(k, d) \o t :
                k \in 1..MaxDistinctStores, d \in StoreDistances,
                t \in SeqsUpTo(Stores, 1)}

GroceryCalls == {[op |-> "score_grocery", grocery_data |-> g] : g \in GroceryLists}

ExampleAmenities ==
    {"covered_parking", "dishwasher", "in_unit_laundry", "ac", "gym", "pool",
     "package_lockers"}

ExampleApartment ==
    [rent |-> 2200, bedrooms |-> 2, bathrooms |-> 4, sqft |-> 1050,
     amenities |-> ExampleAmenities]

ExampleGrocery ==
    <<[name |-> <<"T", "r", "a", "d", "e", "r", " ", "J", "o", "e", "'", "s">>, distance_miles |-> 80],
      [name |-> <<"C", "u", "b", " ", "F", "o", "o", "d", "s">>, distance_miles |-> 120],
      [name |-> <<"C", "o", "s", "t", "c", "o">>, distance_miles |-> 450],
      [name |-> <<"A", "l", "d", "i">>, distance_miles |-> 150],
      [name |-> <<"T", "a", "r", "g", "e", "t">>, distance_miles |-> 50]>>

ExampleNeighborhood ==
    [school_ratings |-> <<7, 8, 6>>,
     crime_index |-> Some(35),
     restaurant_count |-> 25,
     restaurant_avg_rating |-> Some(42),
     drive_minutes |-> 18,
     transit_available |-> "nearby",
     nightlife_count |-> 12,
     nightlife_avg_rating |-> Some(40),
     grocery_stores |-> ExampleGrocery]

BestNeighborhood ==
    [school_ratings |-> <<10, 10>>,
     crime_index |-> Some(0),
     restaurant_count |-> 40,
     restaurant_avg_rating |-> Some(50),
     drive_minutes |-> 5,
     transit_available |-> "nearby",
     nightlife_count |-> 23,
     nightlife_avg_rating |-> Some(50),
     grocery_stores |-> DistinctStores(6, 30) \o <<[name |-> <<"C", "o", "s", "t", "c", "o">>, distance_miles |-> 300]>>]

WorstNeighborhood ==
    [school_ratings |-> <<1>>,
     crime_index |-> Some(100),
     restaurant_count |-> 0,
     restaurant_avg_rating |-> Some(0),
     drive_minutes |-> 90,
     transit_available |-> "none",
     nightlife_count |-> 0,
     nightlife_avg_rating |-> None,
     grocery_stores |-> <<[name |-> <<"A", "L", "D", "I">>, distance_miles |-> 1001]>>]

NeighborhoodKeys == DOMAIN ExampleNeighborhood

\* the example neighborhood with one field ranging over its documented domain
NeighborhoodSweep ==
    {[ExampleNeighborhood EXCEPT !.school_ratings = q] :
        q \in SeqsUpTo({1, 4, 10}, 3) \ {<<>>}}
    \cup {[ExampleNeighborhood EXCEPT !.crime_index = Some(c)] :
              c \in {0, 1, 49, 50, 99, 100}}
    \cup {[ExampleNeighborhood EXCEPT !.restaurant_count = c] : c \in 0..MaxVenues}
    \cup {[ExampleNeighborhood EXCEPT !.nightlife_count = c] : c \in 0..MaxVenues}
    \cup {[ExampleNeighborhood EXCEPT !.restaurant_avg_rating = Some(r)] : r \in 0..50}
    \cup {[ExampleNeighborhood EXCEPT !.nightlife_avg_rating = Some(r)] : r \in 0..50}
    \cup {Restrict([ExampleNeighborhood EXCEPT !.restaurant_count = c,
                                                !.nightlife_count = c],
                    NeighborhoodKeys \ {"school_ratings", "crime_index",
                                        "restaurant_avg_rating",
                                        "nightlife_avg_rating"}) :
              c \in 0..MaxVenues}

\* the example neighborhood with any of its fields left out, and two full records
Neighborhoods ==
    {Restrict(ExampleNeighborhood, D) : D \in SUBSET NeighborhoodKeys}
        \cup {BestNeighborhood, WorstNeighborhood}

OtherSettings ==
    [budget_cap |-> 2000,
     ideal_bedrooms |-> 1,
     ideal_bathrooms |-> 3,
     ideal_sqft |-> 700,
     necessities |-> <<"dishwasher">>,
     nice_to_haves |-> <<>>,
     market_avg_rent |-> 2401]

Apartments ==
    {ExampleApartment,
     [rent |-> 0, bedrooms |-> 1, bathrooms |-> 3, sqft |-> 700,
      amenities |-> {"dishwasher"}],
     [rent |-> 2605, bedrooms |-> 3, bathrooms |-> 2, sqft |-> 850,
      amenities |-> AmenityKeys],
     [rent |-> 3300, bedrooms |-> 5, bathrooms |-> 8, sqft |-> 0, amenities |-> {}]}

ScoreApartmentCalls ==
    {[op |-> "score_apartment", apartment |-> a, neighborhood_data |-> n,
      settings |-> s] :
        a \in Apartments, n \in Neighborhoods, s \in {DefaultSettings, OtherSettings}}
    \cup {[op |-> "score_apartment", apartment |-> ExampleApartment,
           neighborhood_data |-> n, settings |-> DefaultSettings] :
              n \in NeighborhoodSweep}

ServerExampleNeighborhood ==
    [school_count |-> 3,
     restaurant_count |-> 23,
     commute_minutes |-> 18,
     transit_level |-> "some",
     nightlife_count |-> 5,
     grocery_stores |-> ExampleGrocery]

ServerNeighborhoods ==
    {Restrict(ServerExampleNeighborhood, D) :
        D \in SUBSET DOMAIN ServerExampleNeighborhood}
        \cup {[school_count |-> 10, restaurant_count |-> 40, commute_minutes |-> 0,
               transit_level |-> "nearby", nightlife_count |-> 15,
               grocery_stores |-> BestNeighborhood.grocery_stores]}
        \cup {("crime_index" :> Some(c)) @@ ServerExampleNeighborhood : c \in {0, 100}}

ServerNeighborhoodSweep ==
    {[ServerExampleNeighborhood EXCEPT !.school_count = c] : c \in 0..MaxVenues}
    \cup {[ServerExampleNeighborhood EXCEPT !.restaurant_count = c] : c \in 0..MaxVenues}
    \cup {[ServerExampleNeighborhood EXCEPT !.nightlife_count = c] : c \in 0..MaxVenues}

\* the apartment dicts of the server: complete, or with keys left out
ServerApartments ==
    Apartments
        \cup {Restrict(ExampleApartment, D) : D \in {{}, {"rent"}, {"rent", "amenities"}}}

CalculateAllScoresCalls ==
    {[op |-> "calculate_all_scores", apt |-> a, nbr |-> n] :
        a \in ServerApartments, n \in ServerNeighborhoods}
    \cup {[op |-> "calculate_all_scores", apt |-> ExampleApartment, nbr |-> n] :
              n \in ServerNeighborhoodSweep}

\* avg_rating is absent or 0.0 .. 5.0, in tenths
Ratings == {None} \cup {Some(r) : r \in 0..50}

RestaurantsCalls ==
    {[op |-> "score_restaurants", restaurant_count |-> c, avg_rating |-> r] :
        c \in 0..MaxVenues, r \in Ratings}

SchoolsCalls ==
    {[op |-> "score_schools", school_ratings |-> q] :
        q \in SeqsUpTo({1, 2, 7, 10}, MaxSchools)}

ServerSchoolsCalls ==
    {[op |-> "server_score_schools", count |-> c] : c \in 0..MaxVenues}

CrimeCalls ==
    {[op |-> "score_crime", crime_index |-> c] :
        c \in {None} \cup {Some(i) : i \in 0..MaxCrime}}

NightlifeCalls ==
    {[op |-> "score_nightlife", venue_count |-> c, avg_rating |-> r] :
        c \in 0..MaxVenues, r \in Ratings}

NeighborhoodCalls ==
    RestaurantsCalls \cup NightlifeCalls \cup SchoolsCalls \cup ServerSchoolsCalls
        \cup CrimeCalls

ColorCalls == {[op |-> "get_score_color", score |-> x] : x \in 0..MaxScore}

\* calls outside the documented domains: a negative rent, a negative budget
\* cap, a negative distance, and apartments lacking one of their fields
InvalidCalls ==
    {[op |-> "score_price", rent |-> 0 - 100 * k, settings |-> DefaultSettings] :
        k \in 1..MaxInvalid}
    \cup {[op |-> "score_price", rent |-> r,
           settings |-> [DefaultSettings EXCEPT !.budget_cap = 0 - 100 * k]] :
              r \in {0, 2200}, k \in 1..MaxInvalid}
    \cup {[op |-> "score_grocery",
           grocery_data |-> <<[name |-> StrAldi, distance_miles |-> 0 - d]>>] :
              d \in 1..MaxInvalid}
    \cup {[op |-> "score_apartment",
           apartment |-> [ExampleApartment EXCEPT !.rent = 0 - 100 * k],
           neighborhood_data |-> ExampleNeighborhood, settings |-> DefaultSettings] :
              k \in 1..MaxInvalid}
    \cup {[op |-> "score_apartment",
           apartment |-> Restrict(ExampleApartment, DOMAIN ExampleApartment \ {f}),
           neighborhood_data |-> ExampleNeighborhood, settings |-> DefaultSettings] :
              f \in DOMAIN ExampleApartment}

\* lists of raw amenity phrases, with the page text the server appends
ClassifyCalls ==
    LET phrases == {<<"H", "o", "t">>,
                    <<"T", "u", "b">>,
                    <<"G", "a", "r", "a", "g", "e">>,
                    <<"P", "a", "r", "k", "i", "n", "g">>,
                    <<"S", "p", "a", "c", "i", "o", "u", "s">>,
                    <<"A", "/", "C">>,
                    <<"P", "o", "o", "l">>}
        page_texts == {<<>>,
                       <<"H", "e", "a", "t", "e", "d", " ", "P", "o", "o", "l">>,
                       <<"T", "u", "b">>}
    IN  {[op |-> "classify_amenities_adc", raw_amenities |-> q, page_text |-> p] :
            q \in SeqsUpTo(phrases, MaxPhrases), p \in page_texts}
        \cup {[op |-> "classify_amenities", raw_amenities |-> q] :
                  q \in SeqsUpTo(phrases, MaxPhrases)}

\* the plans extract_floor_plans_adc can emit: a plan is kept when bedrooms
\* or rent is present; a plan with units has a rent
EmittedPlans ==
    {p \in [bedrooms : {None, Some(1), Some(2)}, bathrooms : {None, Some(3), Some(4)},
            sqft : {None, Some(1050)}, rent : {None, Some(2200)}, units : {<<>>}] :
        p.bedrooms # None \/ p.rent # None}
    \cup {[bedrooms |-> Some(2), bathrooms |-> Some(4), sqft |-> None,
           rent |-> Some(1900), units |-> <<2100, 1900>>]}

\* the POST requests that carry a page: its floor plans, its classified
\* amenities, the neighborhood fetched for its address, and whether the
\* scrape succeeded (the source is not empty)
PageRequests ==
    LET complete == [bedrooms |-> Some(2), bathrooms |-> Some(4), sqft |-> Some(1050),
                     rent |-> Some(2200), units |-> <<>>]
        pages == SeqsUpTo(EmittedPlans, 1)
                    \cup SeqsUpTo({complete,
                                   [complete EXCEPT !.bedrooms = Some(1)],
                                   [complete EXCEPT !.rent = None]}, MaxPlans)
    IN  [op : {"score_from_url", "score_from_source"}, floor_plans : pages,
         amenities : {ExampleAmenities},
         neighborhood : {Restrict(ServerExampleNeighborhood, {}),
                         ServerExampleNeighborhood},
         page : BOOLEAN]

\* get_apartment_data: whether a page was scraped, its floor plans and raw
\* amenities, and what the user types when asked (None: not a number)
ScraperCalls ==
    LET full == [beds |-> Some(2), baths |-> Some(4), sqft |-> Some(1050),
                 rent |-> Some(2200)]
        plans == {full,
                  [full EXCEPT !.sqft = None],
                  [full EXCEPT !.rent = None],
                  [full EXCEPT !.beds = Some(1), !.baths = Some(2)],
                  [full EXCEPT !.beds = None, !.baths = None, !.sqft = None],
                  [full EXCEPT !.beds = None, !.baths = None, !.sqft = None,
                               !.rent = None]}
        typed == [rent |-> Some(1800), bedrooms |-> Some(1), bathrooms |-> Some(2),
                  sqft |-> Some(700), amenities |-> {"dishwasher", "pool"}]
    IN  [op : {"get_apartment_data"}, raw_data : BOOLEAN,
         floor_plans : SeqsUpTo(plans, MaxPlans),
         amenities : {<<>>, <<<<"P", "o", "o", "l">>, <<"G", "a", "r", "a", "g", "e">>>>},
         input : {typed, [typed EXCEPT !.bathrooms = None]}]

\* the requests of a session with the server: a manual entry without
\* address, a scraped page with two 2bd/2ba plans, and a page source
\* without plans
SessionRequests ==
    LET plan == [bedrooms |-> Some(2), bathrooms |-> Some(4), sqft |-> Some(1050),
                 rent |-> Some(2200), units |-> <<>>]
        page == [op |-> "score_from_url", floor_plans |-> <<plan, plan>>,
                 amenities |-> ExampleAmenities,
                 neighborhood |-> ServerExampleNeighborhood, page |-> TRUE]
    IN  {[op |-> "score_manual", body |-> ExampleApartment,
          neighborhood |-> Restrict(ServerExampleNeighborhood, {})],
         page,
         [page EXCEPT !.op = "score_from_source", !.floor_plans = <<>>]}

AggregatorCalls == ScoreApartmentCalls \cup CalculateAllScoresCalls

AllCalls ==
    PriceCalls \cup RoomsCalls \cup NecessitiesCalls \cup ServerNecessitiesCalls
        \cup NiceToHavesCalls \cup CommuteCalls \cup GroceryCalls \cup AggregatorCalls
        \cup NeighborhoodCalls \cup ColorCalls \cup InvalidCalls \cup ClassifyCalls
        \cup PageRequests \cup ScraperCalls \cup SessionRequests

----------------------------------------------------------------------------
(* The state machine.  A caller has one call in hand (call) and receives   *)
(* its result (ret: None until the call ended, <<value>> once it returned,  *)
(* <<"raise", exception>> once it raised); log records the calls made so   *)
(* far, each with its result.  apartment_db is the list of the server,     *)
(* clock the value of int(time.time() * 1000), deleting the list a DELETE  *)
(* request has rebuilt and not yet bound to apartment_db.                  *)

Raised == Len(ret) = 2

Returned == Len(ret) = 1

Result == ret[1]

DoScorePrice ==
    /\ call.op = "score_price" /\ ret = None
    /\ ret' = Some(score_price(call.rent, call.settings))
    /\ log' = Append(log, [call |-> call, result |-> ret'[1]])
    /\ UNCHANGED <<USER_SETTINGS, call, apartment_db, clock, deleting>>

DoScoreRooms ==
    /\ call.op = "score_rooms" /\ ret = None
    /\ ret' = Some(score_rooms(call.bedrooms, call.bathrooms, call.sqft, call.settings))
    /\ log' = Append(log, [call |-> call, result |-> ret'[1]])
    /\ UNCHANGED <<USER_SETTINGS, call, apartment_db, clock, deleting>>

DoScoreNecessities ==
    /\ call.op = "score_necessities" /\ ret = None
    /\ ret' = Some(score_necessities(call.amenities, call.settings))
    /\ log' = Append(log, [call |-> call, result |-> ret'[1]])
    /\ UNCHANGED <<USER_SETTINGS, call, apartment_db, clock, deleting>>

DoServerScoreNecessities ==
    /\ call.op = "server_score_necessities" /\ ret = None
    /\ ret' = Some(server_score_necessities(call.amenities))
    /\ log' = Append(log, [call |-> call, result |-> ret'[1]])
    /\ UNCHANGED <<USER_SETTINGS, call, apartment_db, clock, deleting>>

DoScoreNiceToHaves ==
    /\ call.op = "score_nice_to_haves" /\ ret = None
    /\ ret' = Some(score_nice_to_haves(call.amenities, call.settings))
    /\ log' = Append(log, [call |-> call, result |-> ret'[1]])
    /\ UNCHANGED <<USER_SETTINGS, call, apartment_db, clock, deleting>>

DoScoreCommute ==
    /\ call.op = "score_commute" /\ ret = None
    /\ ret' = Some(score_commute(call.drive_minutes, call.transit_available))
    /\ log' = Append(log, [call |-> call, result |-> ret'[1]])
    /\ UNCHANGED <<USER_SETTINGS, call, apartment_db, clock, deleting>>

DoServerScoreCommute ==
    /\ call.op = "server_score_commute" /\ ret = None
    /\ ret' = Some(server_score_commute(call.drive_minutes, call.transit_available))
    /\ log' = Append(log, [call |-> call, result |-> ret'[1]])
    /\ UNCHANGED <<USER_SETTINGS, call, apartment_db, clock, deleting>>

DoScoreGrocery ==
    /\ call.op = "score_grocery" /\ ret = None
    /\ ret' = Some(score_grocery(call.grocery_data))
    /\ log' = Append(log, [call |-> call, result |-> ret'[1]])
    /\ UNCHANGED <<USER_SETTINGS, call, apartment_db, clock, deleting>>

\* apartment["rent"] and the like raise KeyError on an apartment without
\* the field
DoScoreApartment ==
    /\ call.op = "score_apartment" /\ ret = None
    /\ ret' = IF {"rent", "bedrooms", "bathrooms", "sqft", "amenities"}
                    \subseteq DOMAIN call.apartment
              THEN Some(score_apartment(call.apartment, call.neighborhood_data,
                                        call.settings))
              ELSE Raise("KeyError")
    /\ log' = Append(log, [call |-> call, result |-> ret'[1]])
    /\ UNCHANGED <<USER_SETTINGS, call, apartment_db, clock, deleting>>

\* the scores stored into the apartment record passed in
DoCalculateAllScoresStoring ==
    /\ call.op = "calculate_all_scores" /\ ret = None
    /\ ret' = Some(calculate_all_scores(call.apt, call.nbr))
    /\ log' = Append(log, [call |-> call, result |-> ret'[1]])
    /\ call' = [call EXCEPT !.apt = ("scores" :> ret'[1]) @@ call.apt]
    /\ UNCHANGED <<USER_SETTINGS, apartment_db, clock, deleting>>

DoCalculateAllScores ==
    /\ call.op = "calculate_all_scores" /\ ret = None
    /\ ret' = Some(calculate_all_scores(call.apt, call.nbr))
    /\ log' = Append(log, [call |-> call, result |-> ret'[1]])
    /\ UNCHANGED <<USER_SETTINGS, call, apartment_db, clock, deleting>>

DoScoreRestaurants ==
    /\ call.op = "score_restaurants" /\ ret = None
    /\ ret' = Some(score_restaurants(call.restaurant_count, call.avg_rating))
    /\ log' = Append(log, [call |-> call, result |-> ret'[1]])
    /\ UNCHANGED <<USER_SETTINGS, call, apartment_db, clock, deleting>>

DoScoreNightlife ==
    /\ call.op = "score_nightlife" /\ ret = None
    /\ ret' = Some(score_nightlife(call.venue_count, call.avg_rating))
    /\ log' = Append(log, [call |-> call, result |-> ret'[1]])
    /\ UNCHANGED <<USER_SETTINGS, call, apartment_db, clock, deleting>>

DoScoreSchools ==
    /\ call.op = "score_schools" /\ ret = None
    /\ ret' = Some(score_schools(call.school_ratings))
    /\ log' = Append(log, [call |-> call, result |-> ret'[1]])
    /\ UNCHANGED <<USER_SETTINGS, call, apartment_db, clock, deleting>>

DoServerScoreSchools ==
    /\ call.op = "server_score_schools" /\ ret = None
    /\ ret' = Some(server_score_schools(call.count))
    /\ log' = Append(log, [call |-> call, result |-> ret'[1]])
    /\ UNCHANGED <<USER_SETTINGS, call, apartment_db, clock, deleting>>

DoScoreCrime ==
    /\ call.op = "score_crime" /\ ret = None
    /\ ret' = Some(score_crime(call.crime_index))
    /\ log' = Append(log, [call |-> call, result |-> ret'[1]])
    /\ UNCHANGED <<USER_SETTINGS, call, apartment_db, clock, deleting>>

DoGetScoreColor ==
    /\ call.op = "get_score_color" /\ ret = None
    /\ ret' = Some(get_score_color(call.score))
    /\ log' = Append(log, [call |-> call, result |-> ret'[1]])
    /\ UNCHANGED <<USER_SETTINGS, call, apartment_db, clock, deleting>>

\* the list returned is one of the orders of set(classified)
DoClassifyAmenitiesAdc ==
    /\ call.op = "classify_amenities_adc" /\ ret = None
    /\ \E classified \in ListsOf(classify_amenities_adc(call.raw_amenities,
                                                         call.page_text)) :
            ret' = Some(classified)
    /\ log' = Append(log, [call |-> call, result |-> ret'[1]])
    /\ UNCHANGED <<USER_SETTINGS, call, apartment_db, clock, deleting>>

DoClassifyAmenities ==
    /\ call.op = "classify_amenities" /\ ret = None
    /\ \E classified \in ListsOf(classify_amenities(call.raw_amenities)) :
            ret' = Some(classified)
    /\ log' = Append(log, [call |-> call, result |-> ret'[1]])
    /\ UNCHANGED <<USER_SETTINGS, call, apartment_db, clock, deleting>>

\* the values of int(time.time() * 1000) read at n successive plans
Stamps(n) ==
    {ms \in [1..n -> clock..(10 + MaxClock)] :
        \A i \in 1..n : ms[i] - (IF i = 1 THEN clock ELSE ms[i - 1]) \in {0, 1}}

\* POST /api/score: nothing scraped, or every matching plan scored and the
\* scored plans appended to apartment_db
DoScoreFromUrl ==
    /\ call.op = "score_from_url" /\ ret = None
    /\ IF ~call.page
       THEN /\ ret' = Some([status |-> "scrape_failed"])
            /\ UNCHANGED <<apartment_db, clock>>
       ELSE \E scored \in {ScoredPlans(call.floor_plans, call.amenities,
                                        call.neighborhood)} :
                IF Len(scored) = 2
                THEN ret' = scored /\ UNCHANGED <<apartment_db, clock>>
                ELSE \E ms \in Stamps(Len(scored[1])) :
                     \E scored_plans \in {Stamped(scored[1], ms)} :
                        /\ clock' = IF ms = <<>> THEN clock ELSE ms[Len(ms)]
                        /\ apartment_db' = apartment_db \o scored_plans
                        /\ ret' = Some([status |-> "success",
                                        apartments |-> scored_plans])
    /\ log' = Append(log, [call |-> call, result |-> ret'[1]])
    /\ UNCHANGED <<USER_SETTINGS, call, deleting>>

\* POST /api/score-source: no source, no floor plans, or as POST /api/score
DoScoreFromSource ==
    /\ call.op = "score_from_source" /\ ret = None
    /\ IF ~call.page \/ call.floor_plans = <<>>
       THEN /\ ret' = Some([status |-> IF call.page THEN "no_plans" ELSE "error"])
            /\ UNCHANGED <<apartment_db, clock>>
       ELSE \E scored \in {ScoredPlans(call.floor_plans, call.amenities,
                                        call.neighborhood)} :
                IF Len(scored) = 2
                THEN ret' = scored /\ UNCHANGED <<apartment_db, clock>>
                ELSE \E ms \in Stamps(Len(scored[1])) :
                     \E scored_plans \in {Stamped(scored[1], ms)} :
                        /\ clock' = ms[Len(ms)]
                        /\ apartment_db' = apartment_db \o scored_plans
                        /\ ret' = Some([status |-> "success",
                                        apartments |-> scored_plans])
    /\ log' = Append(log, [call |-> call, result |-> ret'[1]])
    /\ UNCHANGED <<USER_SETTINGS, call, deleting>>

\* get_apartment_data(url): the apartment built from the first filtered
\* plan when it has a rent, from the typed answers otherwise (the defaults
\* when one of them is not a number); manual_input, which returns once the
\* answers are numbers, when nothing was scraped
DoGetApartmentData ==
    /\ call.op = "get_apartment_data" /\ ret = None
    /\ LET plans == filter_floor_plans(call.floor_plans)
           typed == call.input
           answered == None \notin {typed.rent, typed.bedrooms, typed.bathrooms,
                                    typed.sqft}
       IN  /\ call.raw_data \/ answered
           /\ ret' = Some(
                IF ~call.raw_data
                THEN [rent |-> typed.rent, bedrooms |-> typed.bedrooms,
                      bathrooms |-> typed.bathrooms, sqft |-> typed.sqft,
                      amenities |-> typed.amenities]
                ELSE IF plans # <<>> /\ plans[1].rent \notin {None, Some(0)}
                THEN [rent |-> plans[1].rent, bedrooms |-> plans[1].beds,
                      bathrooms |-> plans[1].baths, sqft |-> plans[1].sqft,
                      amenities |-> classify_amenities(call.amenities)]
                ELSE IF answered
                THEN [rent |-> typed.rent, bedrooms |-> typed.bedrooms,
                      bathrooms |-> typed.bathrooms, sqft |-> typed.sqft,
                      amenities |-> classify_amenities(call.amenities)]
                ELSE [rent |-> Some(0), bedrooms |-> Some(2), bathrooms |-> Some(4),
                      sqft |-> Some(0),
                      amenities |-> classify_amenities(call.amenities)])
    /\ log' = Append(log, [call |-> call, result |-> ret'[1]])
    /\ UNCHANGED <<USER_SETTINGS, call, apartment_db, clock, deleting>>

\* POST /api/score-manual: the entry scored, stamped and appended
DoScoreManual ==
    /\ call.op = "score_manual" /\ ret = None
    /\ LET apt == [rent |-> Get(call.body, "rent", 0),
                   bedrooms |-> Get(call.body, "bedrooms", 2),
                   bathrooms |-> Get(call.body, "bathrooms", 4),
                   sqft |-> Get(call.body, "sqft", 0),
                   amenities |-> Get(call.body, "amenities", {})]
       IN  \E scored \in {("scores" :> calculate_all_scores(apt, call.neighborhood))
                              @@ apt} :
           \E ms \in Stamps(1) :
           \E stored \in {("id" :> str(ms[1])) @@ scored} :
              /\ clock' = ms[1]
              /\ apartment_db' = Append(apartment_db, stored)
              /\ ret' = Some([status |-> "success", apartment |-> stored])
    /\ log' = Append(log, [call |-> call, result |-> ret'[1]])
    /\ UNCHANGED <<USER_SETTINGS, call, deleting>>

\* DELETE /api/apartments/<apt_id>, first half: the list comprehension builds
\* the list without the records named apt_id
DeleteRebuild ==
    /\ deleting = None
    /\ \E i \in DOMAIN apartment_db :
          deleting' = Some([apt_id |-> apartment_db[i].id,
                            rebuilt |-> SelectSeq(apartment_db,
                                                  LAMBDA a : a.id # apartment_db[i].id)])
    /\ UNCHANGED <<USER_SETTINGS, call, ret, log, apartment_db, clock>>

\* second half: the new list is bound to the global apartment_db
DeleteRebind ==
    /\ deleting # None
    /\ apartment_db' = deleting[1].rebuilt
    /\ deleting' = None
    /\ log' = Append(log, [call |-> [op |-> "delete_apartment",
                                     apt_id |-> deleting[1].apt_id],
                           result |-> [status |-> "deleted"]])
    /\ UNCHANGED <<USER_SETTINGS, call, ret, clock>>

\* the server, having answered, takes the next scoring request
NextRequest ==
    /\ ret # None
    /\ Cardinality({i \in DOMAIN log : log[i].call.op # "delete_apartment"})
          < MaxRequests
    /\ call' \in SessionRequests
    /\ ret' = None
    /\ UNCHANGED <<USER_SETTINGS, log, apartment_db, clock, deleting>>

\* the calls of a session that scores several times
LogCalls ==
    {[op |-> "score_apartment", apartment |-> ExampleApartment,
      neighborhood_data |-> ExampleNeighborhood, settings |-> DefaultSettings],
     [op |-> "score_apartment", apartment |-> ExampleApartment,
      neighborhood_data |-> WorstNeighborhood, settings |-> OtherSettings],
     [op |-> "calculate_all_scores", apt |-> ExampleApartment,
      nbr |-> ServerExampleNeighborhood],
     [op |-> "calculate_all_scores", apt |-> Restrict(ExampleApartment, {"rent"}),
      nbr |-> Restrict(ServerExampleNeighborhood, {})],
     [op |-> "score_price", rent |-> 2118,
      settings |-> [DefaultSettings EXCEPT !.budget_cap = 2001]],
     [op |-> "score_grocery", grocery_data |-> ExampleGrocery]}

\* the caller, having received a result, makes its next call
NextCall ==
    /\ ret # None
    /\ Len(log) < MaxLog
    /\ call' \in LogCalls
    /\ ret' = None
    /\ UNCHANGED <<USER_SETTINGS, log, apartment_db, clock, deleting>>

\* the server starts with an empty apartment_db and no DELETE in flight; the
\* millisecond clock stands at a two-digit value, so that every id built
\* from it has the same number of clock digits, as the ids of a real run
InitWith(calls) ==
    /\ USER_SETTINGS = DefaultSettings
    /\ call \in calls
    /\ ret = None
    /\ log = <<>>
    /\ apartment_db = <<>>
    /\ clock = 10
    /\ deleting = None

\* every scoring call
Init == InitWith(AllCalls)

Next ==
    \/ DoScorePrice
    \/ DoScoreRooms
    \/ DoScoreNecessities
    \/ DoServerScoreNecessities
    \/ DoScoreNiceToHaves
    \/ DoScoreCommute
    \/ DoServerScoreCommute
    \/ DoScoreGrocery
    \/ DoScoreApartment
    \/ DoCalculateAllScores
    \/ DoScoreRestaurants
    \/ DoScoreNightlife
    \/ DoScoreSchools
    \/ DoServerScoreSchools
    \/ DoScoreCrime
    \/ DoGetScoreColor
    \/ DoClassifyAmenitiesAdc
    \/ DoClassifyAmenities
    \/ DoScoreFromUrl
    \/ DoScoreFromSource
    \/ DoGetApartmentData
    \/ DoScoreManual
    \/ DeleteRebuild
    \/ DeleteRebind

Spec == Init /\ [][Next]_vars

\* the calls of score_price
SpecPrice ==
    InitWith(PriceCalls)
        /\ [][DoScorePrice]_vars

\* the calls of score_rooms
SpecRooms ==
    InitWith(RoomsCalls)
        /\ [][DoScoreRooms]_vars

\* the calls of the amenity scorers
SpecAmenities ==
    InitWith(NecessitiesCalls \cup ServerNecessitiesCalls \cup NiceToHavesCalls)
        /\ [][DoScoreNecessities \/ DoServerScoreNecessities \/ DoScoreNiceToHaves]_vars

\* the calls of score_commute
SpecCommute ==
    InitWith(CommuteCalls)
        /\ [][DoScoreCommute \/ DoServerScoreCommute]_vars

\* the calls of score_grocery
SpecGrocery ==
    InitWith(GroceryCalls)
        /\ [][DoScoreGrocery]_vars

\* the calls of the neighborhood scorers
SpecNeighborhood ==
    InitWith(NeighborhoodCalls)
        /\ [][DoScoreRestaurants \/ DoScoreNightlife \/ DoScoreSchools
                \/ DoServerScoreSchools \/ DoScoreCrime]_vars

\* the calls of get_score_color
SpecColor == InitWith(ColorCalls) /\ [][DoGetScoreColor]_vars

\* the calls of the two amenity classifiers
SpecClassify ==
    InitWith(ClassifyCalls) /\ [][DoClassifyAmenitiesAdc \/ DoClassifyAmenities]_vars

\* the calls outside the documented domains
SpecInvalid ==
    InitWith(InvalidCalls)
        /\ [][DoScorePrice \/ DoScoreGrocery \/ DoScoreApartment]_vars

\* the calls of the entry point of the scraper
SpecScraper == InitWith(ScraperCalls) /\ [][DoGetApartmentData]_vars

\* sessions of up to MaxRequests scoring requests, a DELETE running beside
\* the scoring requests
SpecServer ==
    InitWith(SessionRequests)
        /\ [][NextRequest \/ DoScoreFromUrl \/ DoScoreFromSource \/ DoScoreManual
                \/ DeleteRebuild \/ DeleteRebind]_vars

\* a session of up to MaxLog calls
SpecLog ==
    InitWith(LogCalls)
        /\ [][NextCall \/ DoScoreApartment \/ DoCalculateAllScores \/ DoScorePrice \/ DoScoreGrocery]_vars

\* the calls of the two aggregators
SpecAggregator ==
    InitWith(AggregatorCalls)
        /\ [][DoScoreApartment \/ DoCalculateAllScores]_vars

----------------------------------------------------------------------------
(* Properties.  The right-hand sides below are written in exact integer    *)
(* arithmetic, independently of the operators that model the code.         *)

\* round(n / d) of the exact quotient, ties to the even integer (n >= 0, d > 0)
RoundHalfEven(n, d) ==
    LET q == n \div d
        r == n % d
    IN  IF 2 * r < d THEN q
        ELSE IF 2 * r > d THEN q + 1
        ELSE IF q % 2 = 0 THEN q ELSE q + 1

\* round(n / d) of the exact quotient, ties upwards
RoundHalfUp(n, d) == (2 * n + d) \div (2 * d)

\* the exact sub-score of the price formula, in tenths of a point:
\* 50 if rent <= limit, else max(0, 50 - 10*(rent - limit)/100)
ExactPriceTenths(rent, limit) ==
    IF rent <= limit THEN 500 ELSE Max(0, 500 - (rent - limit))

\* C5: score_price(rent, settings) equals round(B + M), B and M being the
\* exact budget and market sub-scores and the sum being rounded once (under
\* either rule for ties); it is never negative; score_price(budget_cap) is
\* 100 whenever budget_cap <= market_avg_rent, and score_price(0) is 100.
C5_PriceIsRoundOfExactSum ==
    (Returned /\ call.op = "score_price") =>
        LET rent == call.rent
            cap == call.settings.budget_cap
            avg == call.settings.market_avg_rent
            sum10 == ExactPriceTenths(rent, cap) + ExactPriceTenths(rent, avg)
        IN  /\ Result \in {RoundHalfEven(sum10, 10), RoundHalfUp(sum10, 10)}
            /\ Result >= 0
            /\ (rent = cap /\ cap <= avg) => Result = 100
            /\ rent = 0 => Result = 100

\* C6: score_rooms is max(0, 40 - 20*|bedrooms - ideal|) plus the same for
\* bathrooms plus S, S being 20 if sqft >= ideal_sqft, 10 if
\* sqft >= 0.8*ideal_sqft, else 0; half a bathroom off costs exactly 10
\* points; an exact match with sqft >= ideal_sqft scores 100.
C6_RoomsFormula ==
    (Returned /\ call.op = "score_rooms") =>
        LET bed_diff == Abs(call.bedrooms - call.settings.ideal_bedrooms)
            half_baths == Abs(call.bathrooms - call.settings.ideal_bathrooms)
            ideal == call.settings.ideal_sqft
            S == IF call.sqft >= ideal THEN 20
                 ELSE IF 10 * call.sqft >= 8 * ideal THEN 10
                 ELSE 0
        IN  /\ Result = Max(0, 40 - 20 * bed_diff) + Max(0, 40 - 10 * half_baths) + S
            /\ (bed_diff = 0 /\ half_baths = 1 /\ call.sqft >= ideal) => Result = 90
            /\ (bed_diff = 0 /\ half_baths = 0 /\ call.sqft >= ideal) => Result = 100

\* a 2.5-bath apartment against the ideal of 2 baths, otherwise ideal: 90
C6_HalfBathOff ==
    /\ Returned /\ call.op = "score_rooms"
    /\ call.bedrooms = call.settings.ideal_bedrooms
    /\ call.bathrooms = call.settings.ideal_bathrooms + 1
    /\ call.sqft >= call.settings.ideal_sqft
    /\ Result = 90

\* C7: score_necessities (of both modules) returns 100 exactly when every
\* necessity is in the apartment's amenity set (so also for an empty
\* necessities list) and 0 otherwise, never another value; taking any one
\* required amenity away from a set that scored 100 gives 0.
C7_NecessitiesAllOrNothing ==
    (Returned /\ call.op \in {"score_necessities", "server_score_necessities"}) =>
        LET necessities == IF call.op = "score_necessities"
                           THEN call.settings.necessities
                           ELSE USER_SETTINGS.necessities
            required == {necessities[i] : i \in DOMAIN necessities}
        IN  /\ Result = (IF required \subseteq call.amenities THEN 100 ELSE 0)
            /\ Result = 100 =>
                 \A n \in required :
                    IF call.op = "score_necessities"
                    THEN score_necessities(call.amenities \ {n}, call.settings) = 0
                    ELSE server_score_necessities(call.amenities \ {n}) = 0

\* an amenity set holding all of a non-empty necessities list scored 100
C7_AllPresent ==
    /\ Returned /\ call.op = "score_necessities"
    /\ Len(call.settings.necessities) = MaxNecessities
    /\ Cardinality({call.settings.necessities[i] :
                        i \in DOMAIN call.settings.necessities}) > 1
    /\ Result = 100

\* C8: score_nice_to_haves returns round(100 * count_present / total), total
\* being the length of nice_to_haves and count_present the number of its
\* entries found in the amenity set; 100 when total is 0; with two
\* nice-to-haves 0, 50 and 100 for none, one and both present.
C8_NiceToHavesProportional ==
    (Returned /\ call.op = "score_nice_to_haves") =>
        LET nice == call.settings.nice_to_haves
            total == Len(nice)
            count_present == Cardinality({i \in 1..total : nice[i] \in call.amenities})
        IN  /\ total = 0 => Result = 100
            /\ total > 0 => Result = RoundHalfEven(100 * count_present, total)
            /\ total = 2 => Result = 50 * count_present

\* three of eight nice-to-haves present: 37.5, rounded to 38
C8_ThreeOfEight ==
    /\ Returned /\ call.op = "score_nice_to_haves"
    /\ Len(call.settings.nice_to_haves) = 8
    /\ Cardinality({i \in 1..8 : call.settings.nice_to_haves[i] \in call.amenities}) = 3
    /\ Result = 38

\* C9: score_grocery returns 0 for an empty list and otherwise variety +
\* proximity + costco: variety is min(40, round(40 * u / 5)), u the number
\* of distinct lower-cased names among the stores within 3 miles; proximity
\* is 30/25/15/10/0 for the closest store at <= 0.5 / <= 1 / <= 2 / <= 3 /
\* farther; costco is 30/20/10/0 for the closest store whose lower-cased
\* name contains 'costco' at <= 3 / <= 5 / <= 10 / farther, 0 without one.
\* A single store named Costco at 2 miles scores 53.
C9_GroceryFormula ==
    (Returned /\ call.op = "score_grocery") =>
        LET g == call.grocery_data
            u == Cardinality({Lower(g[i].name) :
                                 i \in {j \in DOMAIN g : g[j].distance_miles <= 300}})
            variety == Min(40, RoundHalfEven(40 * u, 5))
            closest == CHOOSE d \in {g[i].distance_miles : i \in DOMAIN g} :
                           \A i \in DOMAIN g : d <= g[i].distance_miles
            proximity == CASE closest <= 50 -> 30
                           [] closest > 50 /\ closest <= 100 -> 25
                           [] closest > 100 /\ closest <= 200 -> 15
                           [] closest > 200 /\ closest <= 300 -> 10
                           [] OTHER -> 0
            costcos == {i \in DOMAIN g : Contains(StrCostco, Lower(g[i].name))}
            costco == IF \E i \in costcos : g[i].distance_miles <= 300 THEN 30
                      ELSE IF \E i \in costcos : g[i].distance_miles <= 500 THEN 20
                      ELSE IF \E i \in costcos : g[i].distance_miles <= 1000 THEN 10
                      ELSE 0
        IN  /\ g = <<>> => Result = 0
            /\ g # <<>> => Result = variety + proximity + costco
            /\ g = <<[name |-> StrCostcoName, distance_miles |-> 200]>> => Result = 53

\* the single Costco at 2 miles: 8 + 15 + 30
C9_SingleCostcoAtTwoMiles ==
    /\ Returned /\ call.op = "score_grocery"
    /\ call.grocery_data = <<[name |-> StrCostcoName, distance_miles |-> 200]>>
    /\ Result = 53

\* C10: score_commute (of both modules) returns D + T: D is 70 for
\* drive_minutes <= 10, 55 for <= 20, 40 for <= 30, 25 for <= 45, else 10;
\* T is 30 for transit 'nearby', 15 for 'some', 0 for 'none' and for any
\* other value.  score_commute(5, nearby) = 100, score_commute(60, none) = 10.
C10_CommuteStepPlusTransit ==
    (Returned /\ call.op \in {"score_commute", "server_score_commute"}) =>
        LET m == call.drive_minutes
            t == call.transit_available
            D == CASE m <= 10 -> 70
                   [] m > 10 /\ m <= 20 -> 55
                   [] m > 20 /\ m <= 30 -> 40
                   [] m > 30 /\ m <= 45 -> 25
                   [] OTHER -> 10
            T == CASE t = "nearby" -> 30
                   [] t = "some" -> 15
                   [] OTHER -> 0
        IN  /\ Result = D + T
            /\ (m = 5 /\ t = "nearby") => Result = 100
            /\ (m = 60 /\ t = "none") => Result = 10

\* an hour's drive without transit scored 10
C10_HourWithoutTransit ==
    /\ Returned /\ call.op = "score_commute"
    /\ call.drive_minutes = 60 /\ call.transit_available = "none"
    /\ Result = 10

\* the ten category keys of a score vector
CategoryKeys ==
    {"price", "rooms", "necessities", "nice_to_haves", "schools", "crime",
     "restaurants", "commute", "nightlife", "grocery"}

AggregatorReturned ==
    Returned /\ call.op \in {"score_apartment", "calculate_all_scores"}

\* C1: for apartments, neighborhood records and settings of the documented
\* domains, each of the ten category values returned by score_apartment and
\* by calculate_all_scores is an integer in [0, 100].
C1_CategoriesWithinRange ==
    AggregatorReturned => \A k \in CategoryKeys : Result[k] \in 0..100

\* a vector with categories at both ends of the range
C1_BothEndsReached ==
    /\ Returned /\ call.op = "score_apartment"
    /\ Result.price = 0 /\ Result.necessities = 0
    /\ Result.restaurants = 100 /\ Result.nightlife = 100 /\ Result.grocery = 100

\* C2: the overall value of a returned vector is round(mean of the ten
\* category values of that vector): the divisor is 10 and the overall key
\* is not part of the sum.
C2_OverallIsRoundedMeanOfTen ==
    AggregatorReturned =>
        Result.overall =
            RoundHalfEven(Result.price + Result.rooms + Result.necessities
                            + Result.nice_to_haves + Result.schools + Result.crime
                            + Result.restaurants + Result.commute
                            + Result.nightlife + Result.grocery, 10)

\* a vector whose ten categories sum to a mean ending in .5, and whose
\* overall would differ were it divided by eleven
C2_MeanAtHalf ==
    /\ Returned /\ call.op = "score_apartment"
    /\ SumOver(Result, CategoryKeys) % 10 = 5
    /\ SumOver(Result, CategoryKeys) \div 10 > 50

\* C3: whichever optional neighborhood fields are absent, the record being
\* empty included, score_apartment returns a mapping with exactly the eleven
\* keys price, rooms, necessities, nice_to_haves, schools, crime,
\* restaurants, commute, nightlife, grocery and overall.
C3_ExactlyElevenKeys ==
    (Returned /\ call.op = "score_apartment") =>
        DOMAIN Result = CategoryKeys \cup {"overall"}

\* the empty neighborhood record scored with the neutral defaults
C3_EmptyNeighborhoodScored ==
    /\ Returned /\ call.op = "score_apartment"
    /\ DOMAIN call.neighborhood_data = {}
    /\ Cardinality(DOMAIN Result) = 11
    /\ Result.schools = 50 /\ Result.crime = 50 /\ Result.grocery = 0

C11_RestaurantsDensityPlusQuality ==
    (Returned /\ call.op = "score_restaurants") =>
        LET density == Min(50, RoundHalfEven(50 * call.restaurant_count, 20))
            Q == IF call.avg_rating = None THEN 25
                 ELSE Min(50, RoundHalfEven(50 * call.avg_rating[1], 45))
        IN  /\ Result = density + Q
            /\ density <= 50 /\ Q <= 50

\* twice the restaurants needed for full density, with a rating of 1.0:
\* the density stays at 50 and the quality is 11
C11_DensityCappedAlone ==
    /\ Returned /\ call.op = "score_restaurants"
    /\ call.restaurant_count = 40 /\ call.avg_rating = Some(10)
    /\ Result = 61

\* C12: score_schools returns 50 for an empty rating sequence and
\* round(10 * mean(ratings)) otherwise; the count-based score_schools of
\* server.py returns min(100, round(70 * count / 5) + 20), never below 20.
C12_SchoolsMeanOrCount ==
    /\ (Returned /\ call.op = "score_schools") =>
          LET q == call.school_ratings
          IN  Result = (IF q = <<>> THEN 50
                        ELSE RoundHalfEven(10 * SeqSum(q), Len(q)))
    /\ (Returned /\ call.op = "server_score_schools") =>
          /\ Result = Min(100, RoundHalfEven(70 * call.count, 5) + 20)
          /\ Result >= 20

\* four ratings whose mean times ten ends in .5: (1 + 1 + 1 + 2) / 4 = 1.25
C12_MeanAtHalf ==
    /\ Returned /\ call.op = "score_schools"
    /\ Len(call.school_ratings) = 4
    /\ SeqSum(call.school_ratings) = 5
    /\ Result = 12

\* C13: score_crime returns 50 when crime_index is absent and
\* round(max(0, 100 - crime_index)) otherwise: an index of 100 or more
\* scores 0 and an index of 0 scores 100.
C13_CrimeInverted ==
    (Returned /\ call.op = "score_crime") =>
        LET c == call.crime_index
        IN  /\ c = None => Result = 50
            /\ c # None => Result = (IF c[1] >= 100 THEN 0 ELSE 100 - c[1])
            /\ (c # None /\ c[1] = 0) => Result = 100

\* a crime index above 100 scored 0
C13_AboveHundred ==
    /\ Returned /\ call.op = "score_crime"
    /\ call.crime_index # None /\ call.crime_index[1] > 100
    /\ Result = 0

\* C14: get_score_color returns a color for every score in 0..100: green
\* exactly for scores >= 75, yellow exactly for scores in 50..74 and red
\* exactly for scores <= 49 (75 green, 74 yellow, 50 yellow, 49 red).
C14_ColorBands ==
    (Returned /\ call.op = "get_score_color") =>
        LET x == call.score
        IN  /\ Result \in {"green", "yellow", "red"}
            /\ Result = "green" <=> x >= 75
            /\ Result = "yellow" <=> x \in 50..74
            /\ Result = "red" <=> x <= 49
            /\ x = 75 => Result = "green"
            /\ x = 74 => Result = "yellow"
            /\ x = 50 => Result = "yellow"
            /\ x = 49 => Result = "red"

\* the score just below green was colored yellow
C14_SeventyFourYellow ==
    /\ Returned /\ call.op = "get_score_color"
    /\ call.score = 74
    /\ Result = "yellow"

\* the call in hand carries a negative rent, budget cap or distance
NegativeInput ==
    \/ call.op = "score_price"
        /\ (call.rent < 0 \/ call.settings.budget_cap < 0)
    \/ call.op = "score_grocery"
        /\ \E i \in DOMAIN call.grocery_data : call.grocery_data[i].distance_miles < 0
    \/ call.op = "score_apartment"
        /\ "rent" \in DOMAIN call.apartment
        /\ call.apartment.rent < 0

\* C15: a scoring call with malformed settings (a negative budget cap) or
\* a negative rent or distance is rejected: it raises instead of returning
\* a score.
C15_NegativeInputRejected ==
    (NegativeInput /\ ret # None) => Raised

\* the call in hand is a score_apartment call whose neighborhood record has
\* no school ratings, no crime index and neither average rating
RatingsOmitted ==
    /\ call.op = "score_apartment"
    /\ DOMAIN call.neighborhood_data
        \cap {"school_ratings", "crime_index", "restaurant_avg_rating",
              "nightlife_avg_rating"} = {}

\* C16: when the neighborhood record omits the school ratings, the crime
\* index and both average ratings, score_apartment does not raise: it
\* returns schools 50, crime 50, and for restaurants and nightlife the
\* density half plus the neutral 25.
C16_AbsentRatingsNeutral ==
    (RatingsOmitted /\ ret # None) =>
        /\ Returned
        /\ Result.schools = 50
        /\ Result.crime = 50
        /\ Result.restaurants =
              Min(50, RoundHalfEven(
                        50 * Get(call.neighborhood_data, "restaurant_count", 0), 20))
                + 25
        /\ Result.nightlife =
              Min(50, RoundHalfEven(
                        50 * Get(call.neighborhood_data, "nightlife_count", 0), 10))
                + 25

\* seven restaurants and seven nightlife venues, nothing rated
C16_SevenVenuesUnrated ==
    /\ RatingsOmitted /\ Returned
    /\ Get(call.neighborhood_data, "restaurant_count", 0) = 7
    /\ Result.schools = 50 /\ Result.crime = 50
    /\ Result.restaurants = 43 /\ Result.nightlife = 60

\* a classifier returned a list without duplicates of canonical keys
ClassifiedKeys ==
    /\ \A i, j \in DOMAIN Result : Result[i] = Result[j] => i = j
    /\ \A i \in DOMAIN Result : Result[i] \in AmenityKeys

\* the lower-cased raw text of the call in hand, phrases joined by spaces,
\* the page text of the server after them
ConcatenatedText ==
    IF call.op = "classify_amenities_adc"
    THEN Lower(JoinSpace(call.raw_amenities) \o <<" ">> \o call.page_text)
    ELSE Lower(JoinSpace(call.raw_amenities))

\* C17 as stated: both classifiers return a duplicate-free subset of the
\* eight canonical keys, a key being included exactly when one of its
\* keywords is a substring of the concatenated lower-cased raw text.
C17_BothMatchConcatenatedText ==
    (Returned /\ call.op \in {"classify_amenities_adc", "classify_amenities"}) =>
        /\ ClassifiedKeys
        /\ \A key \in AmenityKeys :
              (\E i \in DOMAIN Result : Result[i] = key)
                <=> \E kw \in (IF call.op = "classify_amenities_adc"
                               THEN AMENITY_KEYWORDS ELSE keyword_map)[key] :
                        Contains(kw, ConcatenatedText)

\* C17, amended: both classifiers return a duplicate-free subset of the
\* eight canonical keys; classify_amenities_adc includes a key exactly when
\* one of its keywords is a substring of the concatenated lower-cased text,
\* classify_amenities exactly when one of its own keywords for the key is a
\* substring of a single lower-cased phrase.
C17_ConcatenatedOrPerPhrase ==
    /\ (Returned /\ call.op = "classify_amenities_adc") =>
          /\ ClassifiedKeys
          /\ \A key \in AmenityKeys :
                (\E i \in DOMAIN Result : Result[i] = key)
                  <=> \E kw \in AMENITY_KEYWORDS[key] : Contains(kw, ConcatenatedText)
    /\ (Returned /\ call.op = "classify_amenities") =>
          /\ ClassifiedKeys
          /\ \A key \in AmenityKeys :
                (\E i \in DOMAIN Result : Result[i] = key)
                  <=> \E kw \in keyword_map[key] :
                        \E n \in DOMAIN call.raw_amenities :
                            Contains(kw, Lower(call.raw_amenities[n]))

\* "Hot" and "Tub" as two phrases: the scraper detects nothing
C17_HotTubInTwoPhrases ==
    /\ Returned /\ call.op = "classify_amenities"
    /\ call.raw_amenities = <<<<"H", "o", "t">>, <<"T", "u", "b">>>>
    /\ Result = <<>>

\* C18: for any collection of raw amenity phrases and any page text, every
\* permutation of the phrases yields the same set of detected amenity keys.
C18_OrderInsensitive ==
    (Returned /\ call.op \in {"classify_amenities_adc", "classify_amenities"}) =>
        \A p \in Permutations(DOMAIN call.raw_amenities) :
            LET permuted == [i \in DOMAIN call.raw_amenities |-> call.raw_amenities[p[i]]]
            IN  {Result[i] : i \in DOMAIN Result}
                  = IF call.op = "classify_amenities_adc"
                    THEN classify_amenities_adc(permuted, call.page_text)
                    ELSE classify_amenities(permuted)

\* the call of the example at the bottom of apartment_scorer.py
ExampleCall ==
    /\ call.op = "score_apartment"
    /\ call.apartment = ExampleApartment
    /\ call.neighborhood_data = ExampleNeighborhood
    /\ call.settings = DefaultSettings

C20_NoSideEffect ==
    /\ [](USER_SETTINGS = DefaultSettings)
    /\ [][(ret = None /\ ret' # None) =>
            (call' = call /\ USER_SETTINGS' = USER_SETTINGS)]_vars

\* three calls made, both aggregators among them
C20_BothAggregatorsCalled ==
    /\ Len(log) = 3 /\ Returned
    /\ \E i \in DOMAIN log : log[i].call.op = "score_apartment"
    /\ \E i \in DOMAIN log : log[i].call.op = "calculate_all_scores"
    /\ USER_SETTINGS = DefaultSettings

\* C21: in the server pipeline no error is propagated for absent
\* sub-inputs: for every floor plan extract_floor_plans_adc can emit, the
\* scoring step of score_from_url and score_from_source does not raise and
\* gives every scored plan a complete score vector.
C21_EveryEmittedPlanScored ==
    (call.op \in {"score_from_url", "score_from_source"} /\ ret # None) =>
        /\ Returned
        /\ Result.status = "success" =>
              \A i \in DOMAIN Result.apartments :
                  DOMAIN Result.apartments[i].scores = CategoryKeys \cup {"overall"}

\* C22: whenever get_apartment_data returns an apartment, on the scraped
\* path or the manual path, rent, bedrooms, bathrooms and sqft are all
\* numbers and amenities holds canonical keys only, so that score_apartment
\* can score it, the first selected plan having a rent but no parsed beds,
\* baths or sqft included.
C22_ApartmentReadyForScoring ==
    (call.op = "get_apartment_data" /\ Returned) =>
        /\ None \notin {Result.rent, Result.bedrooms, Result.bathrooms, Result.sqft}
        /\ Result.amenities \subseteq AmenityKeys

\* C23: under the default USER_SETTINGS the score_price, score_rooms,
\* score_necessities, score_nice_to_haves, score_commute and score_grocery
\* of server.py return, for every input, the value of the same-named
\* function of apartment_scorer.py.
C23_ServerCopiesAgree ==
    Returned =>
        /\ (call.op = "score_price" /\ call.settings = DefaultSettings) =>
              Result = server_score_price(call.rent)
        /\ (call.op = "score_rooms" /\ call.settings = DefaultSettings) =>
              Result = server_score_rooms(call.bedrooms, call.bathrooms, call.sqft)
        /\ call.op = "server_score_necessities" =>
              Result = score_necessities(call.amenities, DefaultSettings)
        /\ (call.op = "score_nice_to_haves" /\ call.settings = DefaultSettings) =>
              Result = server_score_nice_to_haves(call.amenities)
        /\ call.op = "score_commute" =>
              Result = server_score_commute(call.drive_minutes, call.transit_available)
        /\ call.op = "server_score_commute" =>
              Result = score_commute(call.drive_minutes, call.transit_available)
        /\ call.op = "score_grocery" =>
              Result = server_score_grocery(call.grocery_data)

\* the server copy of score_commute scored 18 minutes with some transit
C23_ServerCommuteScored ==
    /\ Returned /\ call.op = "server_score_commute"
    /\ call.drive_minutes = 18 /\ call.transit_available = "some"
    /\ Result = 70

\* C24: the unrated forms of server.py return
\* min(100, round(50 * count / 20) + 35) for restaurants and
\* min(100, round(50 * count / 10) + 35) for nightlife for every count >= 0:
\* each is at least 35 and reaches 100, the density part not being capped
\* at 50.
C24_UnratedForms ==
    (Returned /\ call.op = "calculate_all_scores") =>
        /\ Result.restaurants =
              Min(100, RoundHalfEven(50 * Get(call.nbr, "restaurant_count", 0), 20) + 35)
        /\ Result.nightlife =
              Min(100, RoundHalfEven(50 * Get(call.nbr, "nightlife_count", 0), 10) + 35)
        /\ Result.restaurants >= 35 /\ Result.nightlife >= 35

\* C25: the rated nightlife scorer is the restaurants scorer with density
\* denominator 10 instead of 20: score_nightlife(n, r) equals
\* score_restaurants(2n, r) for every venue count n and every rating r,
\* absent or not, and the density half is full from 10 venues on.
C25_NightlifeIsRestaurantsOverTen ==
    (Returned /\ call.op = "score_nightlife") =>
        /\ Result = score_restaurants(2 * call.venue_count, call.avg_rating)
        /\ call.venue_count >= 10 =>
              Result = 50 + (IF call.avg_rating = None THEN 25
                             ELSE Min(50, RoundHalfEven(50 * call.avg_rating[1], 45)))

\* seven venues rated 4.0
C25_SevenVenuesRated ==
    /\ Returned /\ call.op = "score_nightlife"
    /\ call.venue_count = 7 /\ call.avg_rating = Some(40)
    /\ Result = 79

\* C26: in calculate_all_scores the crime value of the score vector is 65
\* for every input, whatever the neighborhood record contains, and this 65
\* is part of the overall mean like any other category.
C26_CrimeFixedAtSixtyFive ==
    (Returned /\ call.op = "calculate_all_scores") =>
        /\ Result.crime = 65
        /\ Result.overall =
              RoundHalfEven(Result.price + Result.rooms + Result.necessities
                              + Result.nice_to_haves + Result.schools + 65
                              + Result.restaurants + Result.commute
                              + Result.nightlife + Result.grocery, 10)

\* a neighborhood record with the worst crime index
C26_CrimeIndexIgnored ==
    /\ Returned /\ call.op = "calculate_all_scores"
    /\ Get(call.nbr, "crime_index", None) = Some(100)
    /\ Result.crime = 65

\* C27: the nice-to-haves score depends only on the set of distinct keys in
\* settings.nice_to_haves: the list reordered, or with a key repeated,
\* gives the same score_nice_to_haves for every amenity set.
C27_NiceToHavesAsSet ==
    (Returned /\ call.op = "score_nice_to_haves") =>
        \A l \in SeqsUpTo(NiceKeys, 3) :
            {l[i] : i \in DOMAIN l}
                = {call.settings.nice_to_haves[i] :
                      i \in DOMAIN call.settings.nice_to_haves}
              => score_nice_to_haves(call.amenities,
                                     [call.settings EXCEPT !.nice_to_haves = l])
                    = Result

\* C28: the overall score is rounded half-to-even: when the ten category
\* values sum to 10k + 5 the overall is k for even k and k + 1 for odd k,
\* and in every other case it is the integer nearest to sum / 10.
C28_OverallHalfToEven ==
    AggregatorReturned =>
        LET sum == SumOver(Result, CategoryKeys)
            k == sum \div 10
        IN  Result.overall =
                IF sum % 10 = 5 THEN (IF k % 2 = 0 THEN k ELSE k + 1)
                ELSE IF sum % 10 < 5 THEN k
                ELSE k + 1

\* a vector whose categories sum to 10k + 5 with k even: the overall is k,
\* not k + 1
C28_TieRoundedDown ==
    /\ AggregatorReturned
    /\ SumOver(Result, CategoryKeys) % 10 = 5
    /\ (SumOver(Result, CategoryKeys) \div 10) % 2 = 0
    /\ Result.overall = SumOver(Result, CategoryKeys) \div 10

\* C29: after any sequence of /api/score, /api/score-source and
\* /api/score-manual requests, the records of apartment_db have pairwise
\* distinct ids, so that a DELETE names exactly one record.
C29_PairwiseDistinctIds ==
    \A i, j \in DOMAIN apartment_db :
        i # j => apartment_db[i].id # apartment_db[j].id

\* the records a logged scoring request appended to apartment_db
StoredBy(entry) ==
    IF entry.call.op = "score_manual" THEN {entry.result.apartment}
    ELSE IF entry.call.op \in {"score_from_url", "score_from_source"}
            /\ entry.result.status = "success"
    THEN {entry.result.apartments[i] : i \in DOMAIN entry.result.apartments}
    ELSE {}

\* C30: no stored record is lost under concurrent handling: once every
\* request has completed, each record a scoring request appended, whose id
\* no DELETE named, is still in apartment_db (which GET /api/apartments
\* returns as it is).
C30_NoStoredRecordLost ==
    (deleting = None /\ ret # None) =>
        \A i \in DOMAIN log :
            \A r \in StoredBy(log[i]) :
                (\A j \in DOMAIN log :
                    log[j].call.op = "delete_apartment" => log[j].call.apt_id # r.id)
                => \E k \in DOMAIN apartment_db : apartment_db[k] = r

====
